---- MODULE Spec2Model ----
(***************************************************************************)
(* Model of the simulation-and-analytics core of the intelligent IoT       *)
(* dashboard backend: the DataGenerator class (scenario state machine,     *)
(* metric formulas, history builder), the PredictionService (linear        *)
(* regression forecaster) and the route modules that own the generators.   *)
(*                                                                         *)
(* Numbers.  JavaScript numbers are modelled as exact fixed-point          *)
(* rationals held in integers; the unit of every quantity is given where   *)
(* it is introduced (c = hundredths, d = tenths, m = thousandths).         *)
(* Math.random() is a nondeterministic draw, in hundredths, from a small   *)
(* set of representatives of [0,1).  Binary floating-point rounding error  *)
(* is not modelled.                                                        *)
(***************************************************************************)
EXTENDS Integers, Sequences, FiniteSets, TLC

VARIABLES
    now,            \* wall clock, ms since local midnight of the boot day
    scenarioState,  \* DataGenerator.scenarioState of one generator object
    last,           \* the last DataGenerator call: its arguments, draws and outcome
    lastData,       \* <<the object the last DataGenerator call returned>>, or <<>>
    generators,     \* router module -> scenarioState of its own DataGenerator
    gScenario,      \* metric generator input: scenario argument
    gHour,          \* metric generator input: hour of day of the sample
    gRnd,           \* metric generator input: the Math.random() results, in call order
    building,       \* <<result of generateBuildingKPIs on the inputs>>, or <<>>
    energy,         \* <<result of generateEnergyKPIs on the inputs>>, or <<>>
    points,         \* predictValue input: values of the series, in hundredths
    hoursAhead,     \* predictValue input
    predicted,      \* <<result of predictValue, in hundredths>>, or <<>>
    historicalData, \* PredictionService input: channel -> values of its points
    currentData,    \* PredictionService input: the current snapshot's fields
    energyPredictions,   \* <<result of predictEnergyConsumption>>, or <<>>
    buildingPredictions, \* <<result of predictBuildingMetrics>>, or <<>>
    anomalies,      \* <<result of detectAnomalies>>, or <<>>
    alerts,         \* <<result of generateAlerts>>, or <<>>
    response,       \* the last HTTP response sent, with what produced it
    inflight,       \* request id -> the request and the point its handling reached
    cache,          \* Redis: cache key -> stored entry
    generated,      \* the URLs for which a route handler generated data, and when
    limiter,        \* Redis: rate-limit key -> scores of its sorted set's members
    maxRequests,    \* rateLimiter argument
    requests,       \* mount path -> arrival times of the client's requests to it
    aiService,      \* AIService object: its fields openai and langchainModel
    analysis        \* <<result of analyzeData, with the calls that produced it>>, or <<>>

objectVars == <<scenarioState, last, lastData>>

metricVars == <<gScenario, gHour, gRnd, building, energy>>

predictVars == <<points, hoursAhead, predicted>>

serviceVars == <<historicalData, currentData, energyPredictions,
                 buildingPredictions, anomalies, alerts>>

webVars == <<response, inflight, cache, generated, limiter, maxRequests, requests>>

aiVars == <<aiService, analysis>>

vars == <<now, objectVars, generators, metricVars, predictVars, serviceVars, webVars,
          aiVars>>

\* undefined, for a scenario name
NoValue == "none"

\* a Math.random() call that was not made
NoDraw == 0 - 1

(***************************************************************************)
(* Arithmetic helpers                                                      *)
(***************************************************************************)

Max(a, b) == IF a >= b THEN a ELSE b

Min(a, b) == IF a <= b THEN a ELSE b

Abs(a) == IF a >= 0 THEN a ELSE 0 - a

\* Math.floor(n / d) for d > 0
FloorDiv(n, d) == n \div d

\* Math.round(n / d) for d > 0: the nearest integer, a tie going up
RoundDiv(n, d) == (n + (d \div 2)) \div d

\* Math.round(x * k / d) for d > 0, computed without forming x * k
MulRoundDiv(x, k, d) == (x \div d) * k + RoundDiv((x % d) * k, d)

Clamp(lo, hi, v) == Max(lo, Min(hi, v))

RECURSIVE SumTo(_, _)
\* sum of f[1..k]
SumTo(f, k) == IF k = 0 THEN 0 ELSE f[k] + SumTo(f, k - 1)

(***************************************************************************)
(* PredictionService.predictValue                                          *)
(***************************************************************************)

\* bounds of the forecaster's inputs
MaxSeriesLen == 5

MaxHoursAhead == 3

\* the least hoursAhead a caller passes
MinHoursAhead == 0 - 2

\* values a series point may take, in hundredths
SeriesVals == {0 - 500, 0, 10000, 10200, 10400, 10600, 10800}

\* xValues = points.map((_, i) => i): x of the k-th point (1-based k) is k - 1
SumX(n) == SumTo([k \in 1..n |-> k - 1], n)

SumXX(n) == SumTo([k \in 1..n |-> (k - 1) * (k - 1)], n)

SumY(ys) == SumTo(ys, Len(ys))

SumXY(ys) == SumTo([k \in 1..Len(ys) |-> (k - 1) * ys[k]], Len(ys))

\* the x at which the fitted line is evaluated: const futureX = n + hoursAhead
FutureX(n, h) == n + h

\* the short-series result passed through Math.max(0, ..) like the fitted one
LastValueOrZeroClamped(ys) == IF Len(ys) >= 1 THEN Max(0, ys[Len(ys)]) ELSE 0

\* points[points.length - 1]?.value || 0
LastValueOrZero(ys) == IF Len(ys) >= 1 THEN ys[Len(ys)] ELSE 0

\* predictValue(points, hoursAhead), values and result in hundredths.
\* slope = A / D, intercept = (sumY - slope * sumX) / n, so
\* predicted = (sumY * D - A * sumX + A * futureX * n) / (n * D).
PredictValue(ys, h) ==
    IF Len(ys) < 2
    THEN LastValueOrZero(ys)
    ELSE LET n == Len(ys)
             A == n * SumXY(ys) - SumX(n) * SumY(ys)
             D == n * SumXX(n) - SumX(n) * SumX(n)
             num == SumY(ys) * D - A * SumX(n) + A * FutureX(n, h) * n
         IN  Max(0, RoundDiv(num, n * D))

(***************************************************************************)
(* DataGenerator: metric formulas                                          *)
(***************************************************************************)

Scenarios ==
    {"normal", "high_occupancy", "energy_spike", "hvac_issue", "air_quality_alert",
     "efficiency_drop", "extreme_temp_high", "extreme_temp_low",
     "extreme_air_quality", "extreme_humidity"}

\* representatives of Math.random(), in hundredths: the least value and one
\* just below 1
RandVals == {0, 99}

\* sin(k * pi / 12) for k = 0..6, rounded to 4 decimals, in ten-thousandths
SinTable == <<0, 2588, 5000, 7071, 8660, 9659, 10000>>

\* Math.sin((hour - 6) * Math.PI / 12) in ten-thousandths, hour in 0..23
SinHour(hour) ==
    LET k == (hour - 6) % 24
    IN  IF k <= 6 THEN SinTable[k + 1]
        ELSE IF k <= 12 THEN SinTable[12 - k + 1]
        ELSE IF k <= 18 THEN 0 - SinTable[k - 12 + 1]
        ELSE 0 - SinTable[24 - k + 1]

\* getTimeOfDayFactor(hour) = sin(..) * 0.3 + 0.7, rounded to hundredths (c)
GetTimeOfDayFactor(hour) == RoundDiv(SinHour(hour) * 3, 1000) + 70

\* calculateTemperature: 22 + (tf - 0.7) * 8 + (r - 0.5) * 3, in thousandths (m)
CalculateTemperature(tf, r) == 22000 + (tf - 70) * 80 + (r - 50) * 30

\* calculateOccupancy: max(10, floor(50 * tf + (r - 0.5) * 20)), in people
CalculateOccupancy(tf, r) == Max(10, FloorDiv(50 * tf + (r - 50) * 20, 100))

\* calculateAirQuality(occupancy): clamp(0, 500, 50 + occ / 10 + (r - 0.5) * 30),
\* occupancy in hundredths, result in thousandths
CalculateAirQuality(occ, r) == Clamp(0, 500000, 50000 + occ + (r - 50) * 300)

\* calculateHumidity: 40 + r * 20, in hundredths
CalculateHumidity(r) == 4000 + r * 20

\* determineHVACStatus without its first rule, for the extreme temperatures
DetermineHVACStatusByTemperature(temp, scenario, r1, r2) ==
    IF scenario = "hvac_issue" /\ r1 < 30 THEN "maintenance"
    ELSE IF (IF scenario = "hvac_issue" THEN r2 ELSE r1) < 5 THEN "maintenance"
    ELSE IF Abs(temp - 22000) > 2000 THEN "active"
    ELSE "idle"

\* determineHVACStatus(temperature, scenario); temperature in thousandths.
\* r1, r2 are the first and second Math.random() the call may make.
DetermineHVACStatus(temp, scenario, r1, r2) ==
    IF scenario \in {"extreme_temp_high", "extreme_temp_low"} THEN "active"
    ELSE IF scenario = "hvac_issue" /\ r1 < 30 THEN "maintenance"
    ELSE IF (IF scenario = "hvac_issue" THEN r2 ELSE r1) < 5 THEN "maintenance"
    ELSE IF Abs(temp - 22000) > 2000 THEN "active"
    ELSE "idle"

\* The switch of generateBuildingKPIs: the raw values after the scenario's
\* modification.  b is [temp (m), occ (c), airQuality (m), humidity (c)];
\* r5, r6, r7 are the Math.random() calls of the case, in source order.
BuildingScenarioEffect(b, scenario, r5, r6, r7) ==
    CASE scenario = "high_occupancy" ->
           [b EXCEPT !.occ = 100 * Min(100, FloorDiv(b.occ * 18 + r5 * 200, 1000)),
                     !.airQuality = Min(500000, b.airQuality + 40000 + r6 * 300),
                     !.temp = b.temp + 1500 + r7 * 15]
      [] scenario = "hvac_issue" ->
           [b EXCEPT !.temp = b.temp + (IF r5 > 50 THEN 4000 ELSE 0 - 4000)
                                     + (r6 - 50) * 20,
                     !.humidity = b.humidity + (r7 - 50) * 15]
      [] scenario = "air_quality_alert" ->
           [b EXCEPT !.airQuality = Min(500000, 120000 + r5 * 800),
                     !.occ = Min(10000, b.occ + r6 * 15)]
      [] scenario = "extreme_temp_high" ->
           [b EXCEPT !.temp = 28000 + r5 * 40,
                     !.humidity = Max(3000, b.humidity - 500 - r6 * 5),
                     !.airQuality = Min(500000, b.airQuality + 20000 + r7 * 200)]
      [] scenario = "extreme_temp_low" ->
           [b EXCEPT !.temp = 14000 + r5 * 40,
                     !.humidity = Min(7000, b.humidity + 500 + r6 * 5)]
      [] scenario = "extreme_air_quality" ->
           IF r5 > 50
           THEN [b EXCEPT !.airQuality = 250000 + r6 * 1500,
                          !.occ = Min(10000, b.occ + 1000 + r7 * 10)]
           ELSE [b EXCEPT !.airQuality = 20000 + r6 * 200]
      [] scenario = "extreme_humidity" ->
           IF r5 > 50
           THEN [b EXCEPT !.humidity = 7500 + r6 * 15,
                          !.temp = b.temp - 1000 - r7 * 10]
           ELSE [b EXCEPT !.humidity = 2500 + r6 * 10,
                          !.temp = b.temp + 1000 + r7 * 10]
      [] OTHER -> b

\* the humidity field of the returned object, in tenths
ReportedHumidity(humidity, scenario) ==
    IF scenario = "extreme_humidity"
    THEN RoundDiv(Clamp(2500, 9000, humidity), 10)
    ELSE RoundDiv(Clamp(3000, 7000, humidity), 10)

\* generateBuildingKPIs(timeFactor, timestamp, scenario); r is the sequence of
\* the 9 Math.random() results the call may consume.  Returned units:
\* temperature tenths, occupancy hundredths of a person, airQuality AQI,
\* humidity tenths.
GenerateBuildingKPIs(tf, timestamp, scenario, r) ==
    LET occ0 == 100 * CalculateOccupancy(tf, r[2])
        base == [temp |-> CalculateTemperature(tf, r[1]),
                 occ |-> occ0,
                 airQuality |-> CalculateAirQuality(occ0, r[3]),
                 humidity |-> CalculateHumidity(r[4])]
        b == BuildingScenarioEffect(base, scenario, r[5], r[6], r[7])
    IN  [temperature |-> RoundDiv(b.temp, 100),
         occupancy |-> b.occ,
         hvacStatus |-> DetermineHVACStatus(b.temp, scenario, r[8], r[9]),
         airQuality |-> RoundDiv(b.airQuality, 1000),
         humidity |-> ReportedHumidity(b.humidity, scenario),
         timestamp |-> timestamp]

\* calculatePowerConsumption: 150 * tf + (r - 0.5) * 30, in tenths
CalculatePowerConsumption(tf, r) == 15 * tf + (r - 50) * 3

\* calculateEfficiency: 80 + r * 15, in hundredths
CalculateEfficiency(r) == 8000 + r * 15

\* calculateRenewablePercentage: 30 + r * 20, in tenths
CalculateRenewablePercentage(r) == 300 + r * 2

\* calculateHourlyRate, in hundredths of a dollar
CalculateHourlyRate(tf) == IF tf > 80 THEN 15 ELSE 10

\* The switch of generateEnergyKPIs.  power is the baseline in tenths of a kW,
\* efficiency in hundredths; the returned power is in units of 1/20000 kW (a
\* multiplier 1.2 + r * 0.15 is 2400 + 3 * r two-thousandths), the returned
\* efficiency in hundredths.  r4, r5 are the Math.random() calls of the case,
\* in source order.
EnergyScenarioEffect(power, efficiency, scenario, r4, r5) ==
    CASE scenario = "energy_spike" ->
           [power |-> power * (2800 + r4 * 6), efficiency |-> efficiency - 500 - r5 * 5]
      [] scenario = "efficiency_drop" ->
           [power |-> power * (2200 + r5 * 2),
            efficiency |-> Max(7000, efficiency - 1500 - r4 * 10)]
      [] scenario = "high_occupancy" ->
           [power |-> power * (2400 + r4 * 3), efficiency |-> efficiency]
      [] scenario = "hvac_issue" ->
           [power |-> power * (2300 + r4 * 4), efficiency |-> efficiency - 300 - r5 * 4]
      [] scenario = "air_quality_alert" ->
           [power |-> power * (2200 + r4 * 2), efficiency |-> efficiency]
      [] scenario \in {"extreme_temp_high", "extreme_temp_low"} ->
           [power |-> power * (3000 + r4 * 6), efficiency |-> efficiency - 800 - r5 * 7]
      [] scenario = "extreme_air_quality" ->
           [power |-> power * (2600 + r4 * 4), efficiency |-> efficiency]
      [] scenario = "extreme_humidity" ->
           [power |-> power * (2400 + r4 * 3), efficiency |-> efficiency]
      [] OTHER -> [power |-> power * 2000, efficiency |-> efficiency]

\* the efficiency field without Math.max(70, Math.min(100, ...))
ReportedEfficiencyUnclamped(efficiency) == RoundDiv(efficiency, 10)

\* the efficiency field of the returned object, in tenths
ReportedEfficiency(efficiency) == Clamp(700, 1000, RoundDiv(efficiency, 10))

\* generateEnergyKPIs(timeFactor, timestamp, scenario); r is the sequence of
\* the Math.random() results: r[1] power, r[2] efficiency, r[3] renewable,
\* r[4], r[5] the scenario's case, r[6] peak usage.  Returned units:
\* powerConsumption, cost, peakUsage, carbonFootprint hundredths;
\* efficiency, renewablePercentage tenths.
GenerateEnergyKPIs(tf, timestamp, scenario, r) ==
    LET renewable == CalculateRenewablePercentage(r[3])
        e == EnergyScenarioEffect(CalculatePowerConsumption(tf, r[1]),
                                  CalculateEfficiency(r[2]), scenario, r[4], r[5])
    IN  [powerConsumption |-> RoundDiv(e.power, 200),
         efficiency |-> ReportedEfficiency(e.efficiency),
         cost |-> RoundDiv(e.power * CalculateHourlyRate(tf), 20000),
         peakUsage |-> MulRoundDiv(e.power, 500 + r[6], 100000),
         renewablePercentage |-> renewable,
         carbonFootprint |-> MulRoundDiv(e.power, 1000 - renewable, 400000),
         timestamp |-> timestamp]

(***************************************************************************)
(* DataGenerator: scenario state machine                                   *)
(***************************************************************************)

HourMs == 60 * 60 * 1000

\* hour of day at which the process boots, a bound of the model's clock
BootHour == 12

BootTime == BootHour * HourMs

\* the clock advances in steps of TickMs, at most MaxTicks times
TickMs == 45 * 1000

MaxTicks == 2

\* Date.getHours() of a time stamp
HourOf(t) == (t \div HourMs) % 24

\* the Math.random() of scenarioDuration: 30 s, 45 s and 89.4 s
DurationDraws == {0, 25, 99}

\* the Math.random() of the early re-roll, each side of its 0.2 threshold
RerollDraws == {19, 20}

\* the Math.random() of const rand, each side of 0.35 and of 0.55
RandDraws == {34, 35, 54, 55}

\* the Math.random() that indexes regularAnomalies or extremeScenarios: they
\* reach every index of either array
PickDraws == {0, 25, 50, 75, 99}

regularAnomalies ==
    <<"high_occupancy", "energy_spike", "hvac_issue", "air_quality_alert",
      "efficiency_drop">>

extremeScenarios ==
    <<"extreme_temp_high", "extreme_temp_low", "extreme_air_quality",
      "extreme_humidity">>

\* the field initialisers of scenarioState, evaluated at time t
NewScenarioState(t) ==
    [lastScenario |-> t, scenarioStartTime |-> t, currentScenario |-> "normal"]

\* const scenarioDuration = 30 * 1000 + Math.random() * 60 * 1000, in ms
ScenarioDuration(dur) == 30 * 1000 + dur * 600

\* shouldChange with && in place of ||
ShouldChangeBoth(timeSinceLastChange, dur, reroll) ==
    timeSinceLastChange > ScenarioDuration(dur) /\ reroll < 20

\* const shouldChange = timeSinceLastChange > scenarioDuration || Math.random() < 0.2
ShouldChange(timeSinceLastChange, dur, reroll) ==
    timeSinceLastChange > ScenarioDuration(dur) \/ reroll < 20

\* array[Math.floor(Math.random()) * array.length]: always the first element
PickFromFirst(array, pick) == array[1]

\* array[Math.floor(Math.random() * array.length)]
PickFrom(array, pick) == array[FloorDiv(pick * Len(array), 100) + 1]

\* the if/else-if chain with <= in place of <
NextScenarioInclusive(rand, pick) ==
    IF rand <= 35 THEN "normal"
    ELSE IF rand <= 55 THEN PickFrom(regularAnomalies, pick)
    ELSE PickFrom(extremeScenarios, pick)

\* the scenario the if/else-if chain on rand assigns to currentScenario
NextScenario(rand, pick) ==
    IF rand < 35 THEN "normal"
    ELSE IF rand < 55 THEN PickFrom(regularAnomalies, pick)
    ELSE PickFrom(extremeScenarios, pick)

\* the value of scenarioStartTime after a change at time t
RestartTime(st, t) == t

\* determineScenario() on scenarioState st at time t with the given draws: the
\* new scenarioState, the returned scenario and whether a change was made
DetermineScenario(st, t, dur, reroll, rand, pick) ==
    LET timeSinceLastChange == t - st.scenarioStartTime
        change == ShouldChange(timeSinceLastChange, dur, reroll)
        st2 == IF change
               THEN [st EXCEPT !.currentScenario = NextScenario(rand, pick),
                               !.scenarioStartTime = RestartTime(st, t)]
               ELSE st
    IN  [state |-> st2, scenario |-> st2.currentScenario, changed |-> change]

\* determineScenario() called before forceExtreme is looked at
CurrentScenarioEager(st, forceExtreme, t, dur, reroll, rand, pick) ==
    LET d == DetermineScenario(st, t, dur, reroll, rand, pick)
    IN  IF forceExtreme # NoValue
        THEN [state |-> d.state, scenario |-> forceExtreme, changed |-> FALSE,
              determined |-> TRUE]
        ELSE [state |-> d.state, scenario |-> d.scenario, changed |-> d.changed,
              determined |-> TRUE]

\* const scenario = forceExtreme || this.determineScenario(): the scenario
\* used, the scenarioState afterwards and whether determineScenario ran
CurrentScenario(st, forceExtreme, t, dur, reroll, rand, pick) ==
    IF forceExtreme # NoValue
    THEN [state |-> st, scenario |-> forceExtreme, changed |-> FALSE,
          determined |-> FALSE]
    ELSE LET d == DetermineScenario(st, t, dur, reroll, rand, pick)
         IN  [state |-> d.state, scenario |-> d.scenario, changed |-> d.changed,
              determined |-> TRUE]

\* the Math.random() results of one snapshot: a source that always returns
\* its least value, or always one just below 1
SnapshotDraws == {[i \in 1..9 |-> v] : v \in RandVals}

\* the object generateCurrentData returns
CurrentData(scenario, t, sr) ==
    LET tf == GetTimeOfDayFactor(HourOf(t))
    IN  [building |-> GenerateBuildingKPIs(tf, t, scenario, sr),
         energy |-> GenerateEnergyKPIs(tf, t, scenario, sr)]

\* values forceExtreme takes: undefined or one of the four extreme scenarios
ForceValues == {NoValue} \cup {extremeScenarios[i] : i \in 1..Len(extremeScenarios)}

\* the draws of one determineScenario call that matter for its outcome: rand
\* is drawn only on a change, the index only when rand >= 0.35
DrawTuples ==
    {d \in [dur : DurationDraws, reroll : RerollDraws,
            rand : RandDraws \cup {NoDraw}, pick : PickDraws \cup {NoDraw}] :
        (d.pick # NoDraw) => (d.rand >= 35)}

NoDraws == [dur |-> NoDraw, reroll |-> NoDraw, rand |-> NoDraw, pick |-> NoDraw]

\* the draw tuples that can occur when determineScenario runs on st at time t
PossibleDraws(st, t) ==
    {d \in DrawTuples :
        IF ShouldChange(t - st.scenarioStartTime, d.dur, d.reroll)
        THEN d.rand # NoDraw /\ (d.rand >= 35 <=> d.pick # NoDraw)
        ELSE d.rand = NoDraw /\ d.pick = NoDraw}

NoCall == [op |-> NoValue]

\* generateCurrentData(forceExtreme) on the generator object
GenerateCurrentData(forceExtreme, d, sr) ==
    LET c == CurrentScenario(scenarioState, forceExtreme, now,
                             d.dur, d.reroll, d.rand, d.pick)
    IN  /\ scenarioState' = c.state
        /\ last' = [op |-> "generateCurrentData",
                    forceExtreme |-> forceExtreme,
                    at |-> now,
                    draws |-> IF c.determined THEN d ELSE NoDraws,
                    changed |-> c.changed,
                    scenario |-> c.scenario,
                    sr |-> sr[1]]
        /\ lastData' = <<CurrentData(c.scenario, now, sr)>>
        /\ UNCHANGED <<now, generators, metricVars, predictVars, serviceVars, webVars, aiVars>>

\* a call without forceExtreme
QueryCurrent ==
    \E d \in PossibleDraws(scenarioState, now), sr \in SnapshotDraws :
        GenerateCurrentData(NoValue, d, sr)

\* a call that forces one of the extreme scenarios
QueryForced ==
    \E f \in ForceValues \ {NoValue}, sr \in SnapshotDraws :
        GenerateCurrentData(f, NoDraws, sr)

\* time passes
Tick ==
    /\ now + TickMs <= BootTime + MaxTicks * TickMs
    /\ now' = now + TickMs
    /\ UNCHANGED <<objectVars, generators, metricVars, predictVars, serviceVars, webVars, aiVars>>

(***************************************************************************)
(* DataGenerator.generateHistoryData                                       *)
(***************************************************************************)

\* largest hours argument of the model
MaxHours == 2

\* history samples generated under the active scenario
HistoryScenarioCurrent(st) == st.currentScenario

\* the scenario argument generateHistoryData passes for every sample
HistoryScenario(st) == "normal"

\* the time stamp of the k-th sample (k = 1 for i = hours, the oldest)
SampleTime(t, hours, k) == t - (hours - (k - 1)) * HourMs

\* the loop with i > 0 in place of i >= 0
SampleCountExclusive(hours) == IF hours >= 0 THEN hours ELSE 0

\* number of iterations of for (let i = hours; i >= 0; i--)
SampleCount(hours) == IF hours >= 0 THEN hours + 1 ELSE 0

\* one channel: the {timestamp, value} points pushed for field f of the
\* samples, in push order
Channel(samples, f) ==
    [k \in 1..Len(samples) |->
        [timestamp |-> samples[k].timestamp, value |-> samples[k][f]]]

\* generateHistoryData(hours) at time t on scenarioState st; sr are the
\* Math.random() results of each sample
HistoryData(st, t, hours, sr) ==
    LET n == SampleCount(hours)
        tf(k) == GetTimeOfDayFactor(HourOf(SampleTime(t, hours, k)))
        b == [k \in 1..n |->
                GenerateBuildingKPIs(tf(k), SampleTime(t, hours, k),
                                     HistoryScenario(st), sr)]
        e == [k \in 1..n |->
                GenerateEnergyKPIs(tf(k), SampleTime(t, hours, k),
                                   HistoryScenario(st), sr)]
    IN  [building |-> [f \in {"temperature", "occupancy", "airQuality", "humidity"}
                          |-> Channel(b, f)],
         energy |-> [f \in {"powerConsumption", "efficiency", "cost", "peakUsage",
                            "renewablePercentage"} |-> Channel(e, f)]]

\* the scenarioState after generateHistoryData
HistoryStateAfter(st) == st

GenerateHistoryData(hours, sr) ==
    /\ scenarioState' = HistoryStateAfter(scenarioState)
    /\ last' = [op |-> "generateHistoryData",
                hours |-> hours,
                at |-> now,
                scenarios |-> [k \in 1..SampleCount(hours) |->
                                  HistoryScenario(scenarioState)],
                sr |-> sr[1]]
    /\ lastData' = <<HistoryData(scenarioState, now, hours, sr)>>
    /\ UNCHANGED <<now, generators, metricVars, predictVars, serviceVars, webVars, aiVars>>

QueryHistory ==
    \E hours \in (0 - 1)..MaxHours, sr \in SnapshotDraws :
        GenerateHistoryData(hours, sr)

(***************************************************************************)
(* Specification of one DataGenerator object                               *)
(***************************************************************************)

Routers == {"dataRoutes", "aiRoutes", "alertRoutes"}

IdleGenerators == generators = [r \in Routers |-> NewScenarioState(BootTime)]

IdleMetrics ==
    /\ gScenario = "normal"
    /\ gHour = 0
    /\ gRnd = <<>>
    /\ building = <<>>
    /\ energy = <<>>

IdlePredict ==
    /\ points = <<>>
    /\ hoursAhead = 0
    /\ predicted = <<>>

NoSeries == [c \in {"temperature", "occupancy", "airQuality", "powerConsumption",
                     "efficiency"} |-> <<>>]

NoSnapshot == [temperature |-> 0, airQuality |-> 0, powerConsumption |-> 0,
               efficiency |-> 0, cost |-> 0]

IdleService ==
    /\ historicalData = NoSeries
    /\ currentData = NoSnapshot
    /\ energyPredictions = <<>>
    /\ buildingPredictions = <<>>
    /\ anomalies = <<>>
    /\ alerts = <<>>

\* an AIService constructed without OPENAI_API_KEY, and no analysis made
IdleAi ==
    /\ aiService = [openai |-> FALSE, langchainModel |-> FALSE,
                    StructuredOutputParser |-> FALSE]
    /\ analysis = <<>>

NoResponse == [status |-> 0]

IdleWeb ==
    /\ response = NoResponse
    /\ inflight = <<>>
    /\ cache = <<>>
    /\ generated = <<>>
    /\ limiter = <<>>
    /\ maxRequests = 0
    /\ requests = <<>>

IdleObject ==
    /\ scenarioState = NewScenarioState(BootTime)
    /\ last = NoCall
    /\ lastData = <<>>

Init ==
    /\ now = BootTime
    /\ scenarioState = NewScenarioState(now)
    /\ last = NoCall
    /\ lastData = <<>>
    /\ IdleGenerators
    /\ IdleMetrics
    /\ IdlePredict
    /\ IdleService
    /\ IdleAi
    /\ IdleWeb

Next ==
    \/ Tick
    \/ QueryCurrent
    \/ QueryForced
    \/ QueryHistory

Spec == Init /\ [][Next]_vars

\* a call of determineScenario that changes the scenario
Transition ==
    \E d \in PossibleDraws(scenarioState, now), sr \in SnapshotDraws :
        /\ d.rand # NoDraw
        /\ GenerateCurrentData(NoValue, d, sr)

\* some draws of an unforced query at this moment change the scenario to s
CanChangeTo(s) ==
    \E d \in PossibleDraws(scenarioState, now) :
        /\ d.rand # NoDraw
        /\ LET r == DetermineScenario(scenarioState, now, d.dur, d.reroll, d.rand, d.pick)
           IN  r.changed /\ r.state.currentScenario = s /\ r.state.scenarioStartTime = now

\* ENABLED Transition, read off the draws determineScenario can make
CanChange == \E s \in Scenarios : CanChangeTo(s)

\* the steps of Transition, recognised by what the call recorded
ChangedQuery ==
    /\ now' = now
    /\ last'.op = "generateCurrentData"
    /\ last'.forceExtreme = NoValue
    /\ last'.changed

\* Time passes, and queries are repeated: each makes the early re-roll draw
\* anew, so a query that changes the scenario cannot be avoided for ever.
\* The second conjunct is SF_vars(Transition) written out, with ENABLED
\* Transition as CanChange and the steps of Transition as ChangedQuery.
FairSpec ==
    /\ Spec
    /\ WF_vars(Tick)
    /\ ([]<>CanChange => []<><<ChangedQuery>>_vars)

(***************************************************************************)
(* The route modules: each constructs its own DataGenerator at import      *)
(***************************************************************************)

\* const validExtremeScenarios of the /iot handler
validExtremeScenarios ==
    {"extreme_temp_high", "extreme_temp_low", "extreme_air_quality",
     "extreme_humidity"}

\* values of req.query.scenario: absent, a valid extreme scenario, a scenario
\* name that may not be forced, and a string that is no scenario
ScenarioParams == {NoValue, "normal", "bogus"} \cup validExtremeScenarios

\* scenarioParam passed on without the validExtremeScenarios.includes test
ForceExtremeUnchecked(scenarioParam) == scenarioParam

\* const forceExtreme = validExtremeScenarios.includes(scenarioParam) ? ... : undefined
ForceExtremeOf(scenarioParam) ==
    IF scenarioParam \in validExtremeScenarios THEN scenarioParam ELSE NoValue

\* the draws of the route-level specification: the shortest duration, both
\* sides of the re-roll threshold, and one draw for each scenario
RouteDraws(st, t) ==
    {d \in PossibleDraws(st, t) : d.dur = 0 /\ d.rand \in {NoDraw, 34, 35, 55}}

\* dataGenerator.generateCurrentData(forceExtreme) on the generator of a router
RouteCurrentData(router, forceExtreme) ==
    \E d \in (IF forceExtreme = NoValue
              THEN RouteDraws(generators[router], now) ELSE {NoDraws}) :
        /\ generators' =
              [generators EXCEPT ![router] =
                  CurrentScenario(generators[router], forceExtreme, now,
                                  d.dur, d.reroll, d.rand, d.pick).state]
        /\ UNCHANGED <<now, objectVars, metricVars, predictVars, serviceVars, webVars, aiVars>>

\* dataGenerator.generateHistoryData(..) on the generator of a router
RouteHistoryData(router) ==
    /\ generators' = [generators EXCEPT ![router] = HistoryStateAfter(generators[router])]
    /\ UNCHANGED <<now, objectVars, metricVars, predictVars, serviceVars, webVars, aiVars>>

\* the handler of GET /api/data/iot, reached when cacheMiddleware(30) misses
IotRoute ==
    \E scenarioParam \in ScenarioParams :
        RouteCurrentData("dataRoutes", ForceExtremeOf(scenarioParam))

\* the handler of GET /api/data/history, reached when cacheMiddleware(300) misses
HistoryRoute == RouteHistoryData("dataRoutes")

\* POST /api/ai/analyze: generates the snapshot unless the body carries one
AnalyzeRoute ==
    \E hasCurrentData \in BOOLEAN :
        IF hasCurrentData
        THEN RouteHistoryData("aiRoutes")
        ELSE RouteCurrentData("aiRoutes", NoValue)

\* GET /api/alerts/predictions
PredictionsRoute == RouteCurrentData("alertRoutes", NoValue)

\* GET /api/alerts/anomalies
AnomaliesRoute == RouteCurrentData("alertRoutes", NoValue)

\* GET /api/alerts
AlertsRoute == RouteCurrentData("alertRoutes", NoValue)

InitRoutes ==
    /\ now = BootTime
    /\ IdleObject
    /\ generators = [r \in Routers |-> NewScenarioState(now)]
    /\ IdleMetrics
    /\ IdlePredict
    /\ IdleService
    /\ IdleAi
    /\ IdleWeb

NextRoutes ==
    \/ Tick
    \/ IotRoute
    \/ HistoryRoute
    \/ AnalyzeRoute
    \/ PredictionsRoute
    \/ AnomaliesRoute
    \/ AlertsRoute

SpecRoutes == InitRoutes /\ [][NextRoutes]_vars

(***************************************************************************)
(* The /iot route handler and its response                                 *)
(***************************************************************************)

\* the handler of GET /api/data/iot?scenario=..: the response sent and the
\* scenario the snapshot in its body was generated under
IotRequest ==
    \E scenarioParam \in ScenarioParams :
        LET forceExtreme == ForceExtremeOf(scenarioParam)
            st == generators["dataRoutes"]
        IN  \E d \in (IF forceExtreme = NoValue THEN RouteDraws(st, now) ELSE {NoDraws}) :
                LET c == CurrentScenario(st, forceExtreme, now, d.dur, d.reroll,
                                         d.rand, d.pick)
                IN  /\ generators' = [generators EXCEPT !["dataRoutes"] = c.state]
                    /\ response' = [status |-> 200,
                                    route |-> "/api/data/iot",
                                    scenarioParam |-> scenarioParam,
                                    scenario |-> c.scenario,
                                    determined |-> c.determined]
                    /\ UNCHANGED <<now, objectVars, metricVars, predictVars,
                                   serviceVars, inflight, cache, generated, limiter,
                                   maxRequests, requests, aiVars>>

InitIot == InitRoutes

NextIot == Tick \/ IotRequest

SpecIot == InitIot /\ [][NextIot]_vars

(***************************************************************************)
(* Concurrent request handlers on one DataGenerator, statement by          *)
(* statement.  Node runs a handler's synchronous code to completion:       *)
(* another handler gets control only where the running one awaits.         *)
(***************************************************************************)

\* number of requests in flight at once
NumHandlers == 2

Handlers == 1..NumHandlers

\* a handler that has not been called: its request waits in the event loop
IdleHandler ==
    [pc |-> "ready", t |-> 0, seenStart |-> 0, expired |-> FALSE, change |-> FALSE,
     rand |-> NoDraw, pick |-> NoDraw, returned |-> NoValue]

\* the statements of determineScenario, by the place control has reached
SyncSection == {"setScenario", "setStart", "return"}

\* control passing to another handler before any statement
CanInterleaveAnywhere(pc) == TRUE

\* whether another handler may run while this one is at pc: only where it
\* awaits, and determineScenario awaits nowhere between its entry and return
CanInterleaveAt(pc) == pc \notin SyncSection

\* handler h is given control
Scheduled(h) == \A g \in Handlers \ {h} : CanInterleaveAt(inflight[g].pc)

\* const now = Date.now() .. const shouldChange = ..
Decide(h) ==
    /\ inflight[h].pc = "ready"
    /\ Scheduled(h)
    /\ \E d \in RouteDraws(scenarioState, now) :
          LET timeSinceLastChange == now - scenarioState.scenarioStartTime
              change == ShouldChange(timeSinceLastChange, d.dur, d.reroll)
          IN  inflight' =
                  [inflight EXCEPT ![h] =
                      [pc |-> IF change THEN "setScenario" ELSE "return",
                       t |-> now,
                       seenStart |-> scenarioState.scenarioStartTime,
                       expired |-> timeSinceLastChange > ScenarioDuration(d.dur),
                       change |-> change,
                       rand |-> d.rand,
                       pick |-> d.pick,
                       returned |-> NoValue]]
    /\ UNCHANGED <<now, objectVars, generators, metricVars, predictVars, serviceVars,
                   response, cache, generated, limiter, maxRequests, requests, aiVars>>

\* this.scenarioState.currentScenario = ..
SetScenario(h) ==
    /\ inflight[h].pc = "setScenario"
    /\ Scheduled(h)
    /\ scenarioState' =
          [scenarioState EXCEPT
              !.currentScenario = NextScenario(inflight[h].rand, inflight[h].pick)]
    /\ inflight' = [inflight EXCEPT ![h].pc = "setStart"]
    /\ UNCHANGED <<now, last, lastData, generators, metricVars, predictVars,
                   serviceVars, response, cache, generated, limiter, maxRequests, requests,
                   aiVars>>

\* this.scenarioState.scenarioStartTime = now
SetStart(h) ==
    /\ inflight[h].pc = "setStart"
    /\ Scheduled(h)
    /\ scenarioState' = [scenarioState EXCEPT !.scenarioStartTime = inflight[h].t]
    /\ inflight' = [inflight EXCEPT ![h].pc = "return"]
    /\ UNCHANGED <<now, last, lastData, generators, metricVars, predictVars,
                   serviceVars, response, cache, generated, limiter, maxRequests, requests,
                   aiVars>>

\* return this.scenarioState.currentScenario
Return(h) ==
    /\ inflight[h].pc = "return"
    /\ Scheduled(h)
    /\ inflight' = [inflight EXCEPT ![h].pc = "done",
                                    ![h].returned = scenarioState.currentScenario]
    /\ UNCHANGED <<now, objectVars, generators, metricVars, predictVars, serviceVars,
                   response, cache, generated, limiter, maxRequests, requests, aiVars>>

InitHandlers ==
    /\ now = BootTime
    /\ IdleObject
    /\ IdleGenerators
    /\ IdleMetrics
    /\ IdlePredict
    /\ IdleService
    /\ IdleAi
    /\ response = NoResponse
    /\ inflight = [h \in Handlers |-> IdleHandler]
    /\ cache = <<>>
    /\ generated = <<>>
    /\ limiter = <<>>
    /\ maxRequests = 0
    /\ requests = <<>>

NextHandlers ==
    \/ Tick
    \/ \E h \in Handlers : Decide(h)
    \/ \E h \in Handlers : SetScenario(h)
    \/ \E h \in Handlers : SetStart(h)
    \/ \E h \in Handlers : Return(h)

SpecHandlers == InitHandlers /\ [][NextHandlers]_vars

(***************************************************************************)
(* cacheMiddleware in front of the data routes, with Redis available       *)
(***************************************************************************)

\* no query string
NoQuery == 0

IotUrl == [path |-> "/api/data/iot", query |-> NoQuery]

HistoryUrl == [path |-> "/api/data/history", query |-> NoQuery]

\* /api/data/iot?t=<Date.now()>: the value of t is unique to the request
BustingUrl(r) == [path |-> "/api/data/iot", query |-> r]

Urls == {IotUrl, HistoryUrl} \cup {BustingUrl(r) : r \in Handlers}

\* a key made of req.path, without the query string
CacheKeyOfPath(url) == <<"cache", url.path, NoQuery>>

\* const cacheKey = `cache:${req.originalUrl}`
CacheKey(url) == <<"cache", url.path, url.query>>

\* cacheMiddleware(30) on /iot, cacheMiddleware(300) on /history, in seconds
TtlSeconds(url) == IF url.path = "/api/data/iot" THEN 30 ELSE 300

\* what redis.get(key) returns at time t: the entry, unless it has expired
RedisGetReply(entry, t) ==
    IF entry # <<>> /\ t < entry[1].storedAt + entry[1].ttl * 1000
    THEN <<entry[1].body>> ELSE <<>>

NewRequest == [pc |-> "new", url |-> IotUrl, reply |-> <<>>, body |-> <<>>]

\* a GET request arrives and Redis executes its redis.get(cacheKey)
RedisGet(r) ==
    /\ inflight[r].pc = "new"
    /\ \E url \in {IotUrl, HistoryUrl, BustingUrl(r)} :
          inflight' = [inflight EXCEPT ![r] =
                          [pc |-> "got", url |-> url,
                           reply |-> RedisGetReply(cache[CacheKey(url)], now),
                           body |-> <<>>]]
    /\ UNCHANGED <<now, objectVars, generators, metricVars, predictVars, serviceVars,
                   response, cache, generated, limiter, maxRequests, requests, aiVars>>

\* the route handler run for request r: res.json(data), or, when its try
\* block has thrown, res.status(500).json({ error })
RouteHandler(r, thrown) ==
    [status |-> IF thrown THEN 500 ELSE 200,
     body |-> [by |-> r, at |-> now, error |-> thrown]]

\* the middleware resumes after await redis.get: a hit is answered from the
\* cache; on a miss next() runs the route handler, whose res.json, whatever
\* the status, sends redis.setex without awaiting it and answers with the
\* body
AfterGet(r) ==
    /\ inflight[r].pc = "got"
    /\ IF inflight[r].reply # <<>>
       THEN /\ response' = [status |-> 200, by |-> r, url |-> inflight[r].url,
                            xCache |-> "HIT", body |-> inflight[r].reply[1]]
            /\ inflight' = [inflight EXCEPT ![r].pc = "done"]
            /\ UNCHANGED generated
       ELSE \E thrown \in BOOLEAN :
              LET sent == RouteHandler(r, thrown)
              IN  /\ generated' = IF thrown THEN generated
                                  ELSE Append(generated,
                                              [url |-> inflight[r].url, at |-> now])
                  /\ response' = [status |-> sent.status, by |-> r,
                                  url |-> inflight[r].url,
                                  xCache |-> "MISS", body |-> sent.body]
                  /\ inflight' = [inflight EXCEPT ![r].pc = "setex",
                                                  ![r].body = <<sent.body>>]
    /\ UNCHANGED <<now, objectVars, generators, metricVars, predictVars, serviceVars,
                   cache, limiter, maxRequests, requests, aiVars>>

\* Redis executes redis.setex(cacheKey, ttlSeconds, JSON.stringify(body))
RedisSetex(r) ==
    /\ inflight[r].pc = "setex"
    /\ cache' = [cache EXCEPT ![CacheKey(inflight[r].url)] =
                     <<[storedAt |-> now, ttl |-> TtlSeconds(inflight[r].url),
                        body |-> inflight[r].body[1]]>>]
    /\ inflight' = [inflight EXCEPT ![r].pc = "done"]
    /\ UNCHANGED <<now, objectVars, generators, metricVars, predictVars, serviceVars,
                   response, generated, limiter, maxRequests, requests, aiVars>>

InitCache ==
    /\ now = BootTime
    /\ IdleObject
    /\ IdleGenerators
    /\ IdleMetrics
    /\ IdlePredict
    /\ IdleService
    /\ IdleAi
    /\ response = NoResponse
    /\ inflight = [r \in Handlers |-> NewRequest]
    /\ cache = [k \in {CacheKey(u) : u \in Urls} |-> <<>>]
    /\ generated = <<>>
    /\ limiter = <<>>
    /\ maxRequests = 0
    /\ requests = <<>>

NextCache ==
    \/ Tick
    \/ \E r \in Handlers : RedisGet(r)
    \/ \E r \in Handlers : AfterGet(r)
    \/ \E r \in Handlers : RedisSetex(r)

SpecCache == InitCache /\ [][NextCache]_vars

(***************************************************************************)
(* rateLimiter: sliding window log in a Redis sorted set per key           *)
(***************************************************************************)

\* requests of one key that the model lets into the sorted set at a time
MaxCalls == 4

\* windowSeconds
WindowSeconds == 60

\* req.ip of the clients
Clients == {"10.0.0.1", "10.0.0.2"}

\* maxRequests of the limiters under study
Limits == 1..3

\* const key = `ratelimit:${endpointKey}:${clientIp}`
RateLimitKey(endpoint, clientIp) == <<"ratelimit", endpoint, clientIp>>

\* pipeline.zadd(key, now, ...): the scores of a key are kept in the order
\* of insertion, which is the order of the clock
Zadd(scores, t) == Append(scores, t)

\* pipeline.zremrangebyscore(key, 0, windowStart)
RECURSIVE Zremrangebyscore(_, _)
Zremrangebyscore(scores, windowStart) ==
    IF scores = <<>> THEN <<>>
    ELSE IF Head(scores) <= windowStart
         THEN Zremrangebyscore(Tail(scores), windowStart)
         ELSE <<Head(scores)>> \o Zremrangebyscore(Tail(scores), windowStart)

\* the sorted set after the pipeline zadd, zremrangebyscore, zcard, expire;
\* the key expires windowSeconds after its last request, when every score
\* it holds is outside the window of any later request
Pipeline(scores, t) == Zremrangebyscore(Zadd(scores, t), t - WindowSeconds * 1000)

\* const count = results[2]?.[1] || 0
CountOf(scores) == Len(scores)

\* if (count >= maxRequests) the request is answered 429, else next()
Exceeded(count, limit) == count >= limit

\* the requests of the key that are inside the window of a request at t
InWindow(scores, t) == Zremrangebyscore(scores, t - WindowSeconds * 1000)

\* a request of client c passes through rateLimiter(maxRequests, 60, 'global');
\* requests[c] logs the times of the requests of c that reached next()
RateLimiter(c) ==
    LET key == RateLimitKey("global", c)
        set == Pipeline(limiter[key], now)
        count == CountOf(set)
    IN  /\ Len(limiter[key]) < MaxCalls
        /\ limiter' = [limiter EXCEPT ![key] = set]
        /\ response' = [status |-> IF Exceeded(count, maxRequests) THEN 429 ELSE 200,
                        clientIp |-> c,
                        limit |-> maxRequests,
                        count |-> count,
                        before |-> Len(InWindow(limiter[key], now)),
                        at |-> now]
        /\ requests' = IF Exceeded(count, maxRequests) THEN requests
                       ELSE [requests EXCEPT ![c] = Append(@, now)]
        /\ UNCHANGED <<now, objectVars, generators, metricVars, predictVars, serviceVars,
                       inflight, cache, generated, maxRequests, aiVars>>

InitRateLimiter ==
    /\ now = BootTime
    /\ IdleObject
    /\ IdleGenerators
    /\ IdleMetrics
    /\ IdlePredict
    /\ IdleService
    /\ IdleAi
    /\ response = NoResponse
    /\ inflight = <<>>
    /\ cache = <<>>
    /\ generated = <<>>
    /\ limiter = [k \in {RateLimitKey("global", c) : c \in Clients} |-> <<>>]
    /\ maxRequests \in Limits
    /\ requests = [c \in Clients |-> <<>>]

NextRateLimiter ==
    \/ Tick
    \/ \E c \in Clients : RateLimiter(c)

SpecRateLimiter == InitRateLimiter /\ [][NextRateLimiter]_vars

(***************************************************************************)
(* The Express application: its middleware in the order of registration,   *)
(* with NODE_ENV = production                                              *)
(***************************************************************************)

\* requests that the model lets one client make
MaxAppRequests == 22

\* const globalLimit = isDevelopment ? 1000 : 200
GlobalLimit == 200

\* rateLimiter(isDevelopment ? 600 : 300, 60, 'data')
DataLimit == 300

\* rateLimiter(isDevelopment ? 100 : 20, 60, 'ai')
AiLimit == 20

\* rateLimiter(isDevelopment ? 300 : 100, 60, 'alerts')
AlertsLimit == 100

Mounts == {"/api/data", "/api/ai", "/api/alerts"}

NoLimit == 0

\* app.use(...) in the order of the calls
AppStack ==
    << [use |-> "rateLimiter", mount |-> "/api", endpoint |-> "global", limit |-> GlobalLimit],
       [use |-> "router", mount |-> "/api/data", endpoint |-> "", limit |-> NoLimit],
       [use |-> "router", mount |-> "/api/ai", endpoint |-> "", limit |-> NoLimit],
       [use |-> "router", mount |-> "/api/alerts", endpoint |-> "", limit |-> NoLimit],
       [use |-> "rateLimiter", mount |-> "/api/data", endpoint |-> "data", limit |-> DataLimit],
       [use |-> "rateLimiter", mount |-> "/api/ai", endpoint |-> "ai", limit |-> AiLimit],
       [use |-> "rateLimiter", mount |-> "/api/alerts", endpoint |-> "alerts", limit |-> AlertsLimit],
       [use |-> "notFound", mount |-> "/", endpoint |-> "", limit |-> NoLimit] >>

\* the limit that the application configures for the routes under a mount path
ConfiguredLimit(mount) ==
    IF mount = "/api/data" THEN DataLimit
    ELSE IF mount = "/api/ai" THEN AiLimit
    ELSE AlertsLimit

\* the mount path of a layer is a prefix of the request's path
Mounted(layer, req) == layer.mount \in {"/", "/api", req.mount}

\* the request runs down the stack from layer i: a limiter answers 429 or
\* calls next(), a router answers when one of its routes matches the
\* request and calls next() otherwise, the last layer answers 404
RECURSIVE Dispatch(_, _, _, _, _)
Dispatch(i, req, c, lim, t) ==
    LET layer == AppStack[i]
        key == RateLimitKey(layer.endpoint, c)
        set == Pipeline(lim[key], t)
        counted == [lim EXCEPT ![key] = set]
    IN  IF layer.use = "notFound" THEN [status |-> 404, limiter |-> lim]
        ELSE IF ~Mounted(layer, req) THEN Dispatch(i + 1, req, c, lim, t)
        ELSE IF layer.use = "router"
             THEN IF req.routed THEN [status |-> 200, limiter |-> lim]
                  ELSE Dispatch(i + 1, req, c, lim, t)
             ELSE IF Exceeded(CountOf(set), layer.limit)
                  THEN [status |-> 429, limiter |-> counted]
                  ELSE Dispatch(i + 1, req, c, counted, t)

AppClient == "10.0.0.1"

\* the client sends a request to a path under the mount path it uses;
\* routed tells whether a route of that router matches its method and path
AppRequest ==
    /\ Len(limiter[RateLimitKey("global", AppClient)]) < MaxAppRequests
    /\ \E mount \in DOMAIN requests, routed \in BOOLEAN :
          LET req == [mount |-> mount, routed |-> routed]
              out == Dispatch(1, req, AppClient, limiter, now)
          IN  /\ limiter' = out.limiter
              /\ requests' = [requests EXCEPT ![mount] = Append(@, now)]
              /\ response' = [status |-> out.status,
                              mount |-> mount,
                              routed |-> routed,
                              before |-> Len(InWindow(requests[mount], now))]
    /\ UNCHANGED <<now, objectVars, generators, metricVars, predictVars, serviceVars,
                   inflight, cache, generated, maxRequests, aiVars>>

InitApp ==
    /\ now = BootTime
    /\ IdleObject
    /\ IdleGenerators
    /\ IdleMetrics
    /\ IdlePredict
    /\ IdleService
    /\ IdleAi
    /\ response = NoResponse
    /\ inflight = <<>>
    /\ cache = <<>>
    /\ generated = <<>>
    /\ limiter = [k \in {RateLimitKey(e, AppClient) : e \in {"global", "data", "ai", "alerts"}}
                      |-> <<>>]
    /\ maxRequests = 0
    /\ \E mount \in Mounts : requests = [m \in {mount} |-> <<>>]

NextApp == AppRequest

SpecApp == InitApp /\ [][NextApp]_vars

(***************************************************************************)
(* AIService                                                               *)
(*                                                                         *)
(* Units: temperature, humidity and efficiency tenths, airQuality and      *)
(* occupancy units.  A text is modelled by a tag naming the statement      *)
(* that pushes it; a text taken from the AI response has the tag "ai".     *)
(***************************************************************************)

\* the module's optional imports and the constructor: openai exists when
\* OPENAI_API_KEY is set; langchainModel exists when moreover the LangChain
\* packages were loaded and new ChatOpenAI(...) did not throw
NewAIService(apiKey, langchainLoaded, initThrows) ==
    [openai |-> apiKey,
     langchainModel |-> apiKey /\ langchainLoaded /\ ~initThrows,
     StructuredOutputParser |-> langchainLoaded]

\* getFallbackAnalysis: the temperature texts
FallbackTemperature(cd) ==
    IF cd.temperature > 280
    THEN [anomalies |-> <<"temperature_high">>, insights |-> <<"temperature_critically_high">>,
          recommendations |-> <<"emergency_cooling", "check_hvac">>]
    ELSE IF cd.temperature > 250
    THEN [anomalies |-> <<>>, insights |-> <<"temperature_above_optimal">>,
          recommendations |-> <<"reduce_temperature">>]
    ELSE IF cd.temperature < 160
    THEN [anomalies |-> <<"temperature_low">>, insights |-> <<"temperature_critically_low">>,
          recommendations |-> <<"emergency_heating", "check_hvac">>]
    ELSE IF cd.temperature < 200
    THEN [anomalies |-> <<>>, insights |-> <<"temperature_below_optimal">>,
          recommendations |-> <<"increase_heating">>]
    ELSE [anomalies |-> <<>>, insights |-> <<"temperature_optimal">>,
          recommendations |-> <<>>]

\* getFallbackAnalysis: the air quality texts
FallbackAirQuality(cd) ==
    IF cd.airQuality > 250
    THEN [anomalies |-> <<"air_quality_hazardous">>, insights |-> <<"air_quality_hazardous">>,
          recommendations |-> <<"increase_ventilation_urgent", "check_filtration">>]
    ELSE IF cd.airQuality > 150
    THEN [anomalies |-> <<>>, insights |-> <<"air_quality_unhealthy">>,
          recommendations |-> <<"increase_ventilation">>]
    ELSE IF cd.airQuality < 30
    THEN [anomalies |-> <<>>, insights |-> <<"air_quality_excellent">>,
          recommendations |-> <<>>]
    ELSE IF cd.airQuality > 100
    THEN [anomalies |-> <<>>, insights |-> <<"air_quality_moderate">>,
          recommendations |-> <<"consider_ventilation">>]
    ELSE [anomalies |-> <<>>, insights |-> <<>>, recommendations |-> <<>>]

\* getFallbackAnalysis: the humidity texts
FallbackHumidity(cd) ==
    IF cd.humidity > 800
    THEN [anomalies |-> <<"humidity_high">>, insights |-> <<"humidity_extremely_high">>,
          recommendations |-> <<"dehumidify", "check_leaks">>]
    ELSE IF cd.humidity < 300
    THEN [anomalies |-> <<"humidity_low">>, insights |-> <<"humidity_extremely_low">>,
          recommendations |-> <<"humidify">>]
    ELSE IF cd.humidity > 650 \/ cd.humidity < 400
    THEN [anomalies |-> <<>>, insights |-> <<"humidity_outside_optimal">>,
          recommendations |-> <<"adjust_humidity">>]
    ELSE [anomalies |-> <<>>, insights |-> <<>>, recommendations |-> <<>>]

\* getFallbackAnalysis: the energy texts
FallbackEnergy(cd) ==
    IF cd.efficiency < 750
    THEN [anomalies |-> <<>>, insights |-> <<"efficiency_critically_low">>,
          recommendations |-> <<"review_equipment_urgent">>]
    ELSE IF cd.efficiency < 850
    THEN [anomalies |-> <<>>, insights |-> <<"efficiency_below_target">>,
          recommendations |-> <<"review_equipment">>]
    ELSE [anomalies |-> <<>>, insights |-> <<"efficiency_good">>,
          recommendations |-> <<>>]

\* getFallbackAnalysis: the occupancy texts
FallbackOccupancy(cd) ==
    IF cd.occupancy > 80
    THEN [anomalies |-> <<>>, insights |-> <<"occupancy_high">>,
          recommendations |-> <<"monitor_ventilation">>]
    ELSE [anomalies |-> <<>>, insights |-> <<>>, recommendations |-> <<>>]

\* getFallbackAnalysis; anomalies <<>> stands for undefined
GetFallbackAnalysis(cd) ==
    LET parts == <<FallbackTemperature(cd), FallbackAirQuality(cd), FallbackHumidity(cd),
                   FallbackEnergy(cd), FallbackOccupancy(cd)>>
        all(f) == parts[1][f] \o parts[2][f] \o parts[3][f] \o parts[4][f] \o parts[5][f]
    IN  [insights |-> all("insights"),
         trends |-> IF all("anomalies") # <<>> THEN "anomalies_detected" ELSE "stable",
         anomalies |-> all("anomalies"),
         recommendations |-> all("recommendations")]

\* .filter(x => typeof x === 'string'): an entry that is not a string has
\* the tag "not_a_string"
IsString(x) == x # "not_a_string"

Strings(list) == SelectSeq(list, IsString)

\* .slice(0, 3)
Slice3(list) == SubSeq(list, 1, Min(3, Len(list)))

\* a field of the parsed object that is not an array
NotArray == <<"not_an_array">>

\* the safety check of parseAnalysisJSON: detectedAnomalies
DetectedAnomalies(cd) ==
    (IF cd.airQuality > 200 THEN <<"air_quality_hazardous">>
     ELSE IF cd.airQuality > 150 THEN <<"air_quality_very_unhealthy">>
     ELSE IF cd.airQuality > 100 THEN <<"air_quality_unhealthy">>
     ELSE <<>>)
    \o (IF cd.temperature > 280 THEN <<"temperature_critically_high">>
        ELSE IF cd.temperature < 160 THEN <<"temperature_critically_low">>
        ELSE <<>>)
    \o (IF cd.humidity > 800 THEN <<"humidity_extremely_high">>
        ELSE IF cd.humidity < 300 THEN <<"humidity_extremely_low">>
        ELSE <<>>)

\* parseAnalysisJSON on content that JSON.parse turned into an object; an
\* anomaly text of the AI that contains the first 30 characters of a safety
\* check text has the tag of that text
ParseObject(parsed, cd) ==
    LET aiInsights == IF parsed.insights = NotArray THEN <<>>
                      ELSE Slice3(Strings(parsed.insights))
        aiTrends == IF parsed.trends = "not_a_string" THEN "default_stable"
                    ELSE parsed.trends
        aiAnomalies == IF parsed.anomalies = NotArray \/ parsed.anomalies = <<>> THEN <<>>
                       ELSE Strings(parsed.anomalies)
        aiRecommendations == IF parsed.recommendations = NotArray THEN <<>>
                             ELSE Slice3(Strings(parsed.recommendations))
        isNew(a) == \A i \in 1..Len(aiAnomalies) : aiAnomalies[i] # a
    IN  [insights |-> IF aiInsights = <<>> THEN <<"analysis_completed">> ELSE aiInsights,
         trends |-> IF aiTrends = "" THEN "no_significant_trends" ELSE aiTrends,
         anomalies |-> aiAnomalies \o SelectSeq(DetectedAnomalies(cd), isNew),
         recommendations |-> IF aiRecommendations = <<>>
                             THEN <<"continue_monitoring", "optimize_hvac">>
                             ELSE aiRecommendations]

\* parseAnalysisJSON reading content that is not an object as the object {}
ParseAnalysisJSONLenient(content, cd) ==
    IF content.kind \in {"empty", "not_json", "null"}
    THEN ParseObject([insights |-> NotArray, trends |-> "not_a_string",
                      anomalies |-> NotArray, recommendations |-> NotArray], cd)
    ELSE ParseObject(content.parsed, cd)

\* parseAnalysisJSON: JSON.parse throws on text that is not JSON, and
\* reading a field of null throws; both end in the catch
ParseAnalysisJSON(content, cd) ==
    IF content.kind \in {"empty", "not_json", "null"}
    THEN GetFallbackAnalysis(cd)
    ELSE ParseObject(content.parsed, cd)

\* what openai.chat.completions.create does: it throws, or it returns a
\* message whose content is one of these
ParsedObjects ==
    [insights : {NotArray, <<>>, <<"not_a_string">>,
                 <<"ai", "not_a_string", "ai", "ai", "ai">>},
     trends : {"not_a_string", "", "ai"},
     anomalies : {NotArray, <<>>, <<"not_a_string">>, <<"ai">>,
                  <<"air_quality_hazardous">>},
     recommendations : {NotArray, <<"ai">>}]

Contents ==
    {[kind |-> k, parsed |-> <<>>] : k \in {"empty", "not_json", "null"}}
        \cup {[kind |-> "object", parsed |-> o] : o \in ParsedObjects}

OpenAiOutcomes == {[throws |-> TRUE, content |-> [kind |-> "empty", parsed |-> <<>>]]}
                      \cup {[throws |-> FALSE, content |-> c] : c \in Contents}

\* analyzeDataWithOpenAI; the result is returned with the number of calls
\* made to the OpenAI API
AnalyzeDataWithOpenAI(svc, cd, outcome) ==
    IF ~svc.openai THEN [result |-> GetFallbackAnalysis(cd), openAiCalls |-> 0]
    ELSE IF outcome.throws THEN [result |-> GetFallbackAnalysis(cd), openAiCalls |-> 1]
    ELSE [result |-> ParseAnalysisJSON(outcome.content, cd), openAiCalls |-> 1]

\* analyzeData; every branch behind the first test ends in
\* analyzeDataWithOpenAI, which does not throw
AnalyzeData(svc, cd, outcome) ==
    IF ~svc.langchainModel THEN [result |-> GetFallbackAnalysis(cd), openAiCalls |-> 0]
    ELSE AnalyzeDataWithOpenAI(svc, cd, outcome)

AiSnapshots ==
    [temperature : {159, 160, 220, 280, 281},
     airQuality : {100, 200, 201, 250, 251},
     humidity : {299, 300, 500, 800, 801},
     efficiency : {900},
     occupancy : {50, 81}]

\* the module is loaded and the AIService constructed
InitAi ==
    /\ now = BootTime
    /\ IdleObject
    /\ IdleGenerators
    /\ IdleMetrics
    /\ IdlePredict
    /\ historicalData = NoSeries
    /\ currentData \in AiSnapshots
    /\ energyPredictions = <<>>
    /\ buildingPredictions = <<>>
    /\ anomalies = <<>>
    /\ alerts = <<>>
    /\ IdleWeb
    /\ \E apiKey \in BOOLEAN, langchainLoaded \in BOOLEAN, initThrows \in BOOLEAN :
          aiService = NewAIService(apiKey, langchainLoaded, initThrows)
    /\ analysis = <<>>

AnalyzeDataCall ==
    /\ analysis = <<>>
    /\ \E outcome \in OpenAiOutcomes :
          analysis' = <<[outcome |-> outcome] @@ AnalyzeData(aiService, currentData, outcome)>>
    /\ UNCHANGED <<now, objectVars, generators, metricVars, predictVars, serviceVars,
                   webVars, aiService>>

NextAi == AnalyzeDataCall

SpecAi == InitAi /\ [][NextAi]_vars

(***************************************************************************)
(* Specification of the metric formulas as functions of their inputs       *)
(***************************************************************************)

\* hours of day of the samples
GenHours == {0, 6, 9, 12}

InitMetrics ==
    /\ now = BootTime
    /\ IdleObject
    /\ IdleGenerators
    /\ gScenario \in Scenarios
    /\ gHour \in GenHours
    /\ gRnd \in [1..9 -> RandVals]
    /\ building = <<>>
    /\ energy = <<>>
    /\ IdlePredict
    /\ IdleService
    /\ IdleAi
    /\ IdleWeb

BuildingCall ==
    /\ building = <<>>
    /\ building' = <<GenerateBuildingKPIs(GetTimeOfDayFactor(gHour), now, gScenario, gRnd)>>
    /\ UNCHANGED <<now, objectVars, generators, gScenario, gHour, gRnd, energy,
                   predictVars, serviceVars, webVars, aiVars>>

EnergyCall ==
    /\ energy = <<>>
    /\ energy' = <<GenerateEnergyKPIs(GetTimeOfDayFactor(gHour), now, gScenario, gRnd)>>
    /\ UNCHANGED <<now, objectVars, generators, gScenario, gHour, gRnd, building,
                   predictVars, serviceVars, webVars, aiVars>>

NextMetrics == BuildingCall \/ EnergyCall

SpecMetrics == InitMetrics /\ [][NextMetrics]_vars

(***************************************************************************)
(* Specification of predictValue as a function of its inputs               *)
(***************************************************************************)

SeriesInputs == UNION {[1..n -> SeriesVals] : n \in 0..MaxSeriesLen}

InitPredict ==
    /\ now = BootTime
    /\ IdleObject
    /\ IdleGenerators
    /\ IdleMetrics
    /\ points \in SeriesInputs
    /\ hoursAhead \in MinHoursAhead..MaxHoursAhead
    /\ predicted = <<>>
    /\ IdleService
    /\ IdleAi
    /\ IdleWeb

PredictValueCall ==
    /\ predicted = <<>>
    /\ predicted' = <<PredictValue(points, hoursAhead)>>
    /\ UNCHANGED <<now, objectVars, generators, metricVars, points, hoursAhead,
                   serviceVars, webVars, aiVars>>

NextPredict == PredictValueCall

SpecPredict == InitPredict /\ [][NextPredict]_vars

(***************************************************************************)
(* PredictionService: forecasts                                            *)
(***************************************************************************)

\* the loop with i < hoursAhead in place of i <= hoursAhead
ForecastStepsExclusive(h) == IF h >= 1 THEN h - 1 ELSE 0

\* number of iterations of for (let i = 1; i <= hoursAhead; i++)
ForecastSteps(h) == IF h >= 1 THEN h ELSE 0

\* futureTime = new Date(); futureTime.setHours(futureTime.getHours() + i)
FutureTime(t, i) == t + i * HourMs

\* the generator's time-of-day rate at the hour of the predicted time
HourlyRateByTimeOfDay(futureTime) ==
    CalculateHourlyRate(GetTimeOfDayFactor(HourOf(futureTime)))

\* const hourlyRate = 0.12, in hundredths of a dollar
HourlyRate(futureTime) == 12

\* predictEnergyConsumption(historicalData, hoursAhead) called at time t.
\* Units: powerConsumption and cost hundredths, efficiency tenths.
PredictEnergyConsumption(hd, h, t) ==
    [i \in 1..ForecastSteps(h) |->
        LET predictedPower == PredictValue(hd.powerConsumption, i)
            predictedEfficiency == PredictValue(hd.efficiency, i)
        IN  [powerConsumption |-> predictedPower,
             cost |-> RoundDiv(predictedPower * HourlyRate(FutureTime(t, i)), 100),
             efficiency |-> Max(0, Min(1000, RoundDiv(predictedEfficiency, 10))),
             timestamp |-> FutureTime(t, i)]]

\* predictBuildingMetrics(historicalData, hoursAhead) called at time t.
\* Units: temperature tenths, occupancy and airQuality units.
PredictBuildingMetrics(hd, h, t) ==
    [i \in 1..ForecastSteps(h) |->
        LET predictedTemp == PredictValue(hd.temperature, i)
            predictedOcc == Max(0, RoundDiv(PredictValue(hd.occupancy, i), 100))
            predictedAQ ==
                Max(0, Min(500, RoundDiv(PredictValue(hd.airQuality, i), 100)))
        IN  [temperature |-> RoundDiv(predictedTemp, 10),
             occupancy |-> predictedOcc,
             airQuality |-> predictedAQ,
             timestamp |-> FutureTime(t, i)]]

\* the series a history channel holds: empty, one point, rising, falling
ForecastSeries ==
    {<<>>, <<5000>>, <<10000, 10200>>, <<8000, 7000, 6500>>}

Channels == {"temperature", "occupancy", "airQuality", "powerConsumption",
             "efficiency"}

\* a channel whose only point is a reading below zero: -5.00
BelowZeroSeries == <<0 - 500>>

\* the history bundles: any series in any channel, and a reading below zero
\* in the channels whose quantity has one (a temperature in degrees Celsius,
\* a net power)
HistoryBundles ==
    {h \in [Channels -> ForecastSeries \cup {BelowZeroSeries}] :
        \A c \in {"occupancy", "airQuality", "efficiency"} : h[c] # BelowZeroSeries}

\* the times of day at which the forecast is asked for: noon and midnight
ForecastTimes == {BootTime, BootTime + 12 * HourMs}

InitForecast ==
    /\ now \in ForecastTimes
    /\ IdleObject
    /\ IdleGenerators
    /\ IdleMetrics
    /\ points = <<>>
    /\ predicted = <<>>
    /\ hoursAhead \in MinHoursAhead..MaxHoursAhead
    /\ historicalData \in HistoryBundles
    /\ currentData = NoSnapshot
    /\ energyPredictions = <<>>
    /\ buildingPredictions = <<>>
    /\ anomalies = <<>>
    /\ alerts = <<>>
    /\ IdleWeb
    /\ IdleAi

PredictEnergyConsumptionCall ==
    /\ energyPredictions = <<>>
    /\ energyPredictions' = <<PredictEnergyConsumption(historicalData, hoursAhead, now)>>
    /\ UNCHANGED <<now, objectVars, generators, metricVars, predictVars,
                   historicalData, currentData, buildingPredictions, anomalies,
                   alerts, webVars, aiVars>>

PredictBuildingMetricsCall ==
    /\ buildingPredictions = <<>>
    /\ buildingPredictions' = <<PredictBuildingMetrics(historicalData, hoursAhead, now)>>
    /\ UNCHANGED <<now, objectVars, generators, metricVars, predictVars,
                   historicalData, currentData, energyPredictions, anomalies,
                   alerts, webVars, aiVars>>

NextForecast == PredictEnergyConsumptionCall \/ PredictBuildingMetricsCall

SpecForecast == InitForecast /\ [][NextForecast]_vars

(***************************************************************************)
(* PredictionService: anomaly detection                                    *)
(***************************************************************************)

\* calculateStats(points): the divisor of avg and variance; an empty channel
\* gives avg 0 and stdDev 0, as one point of value 0 would
StatsCount(vs) == IF Len(vs) = 0 THEN 1 ELSE Len(vs)

\* n * n * variance = n * sum(v^2) - (sum v)^2
ScaledVariance(vs) ==
    StatsCount(vs) * SumTo([k \in 1..Len(vs) |-> vs[k] * vs[k]], Len(vs))
        - SumY(vs) * SumY(vs)

\* n * (x - avg)
ScaledDeviation(x, vs) == StatsCount(vs) * x - SumY(vs)

\* the comparison with >= in place of >
MoreThanTwoStdDevInclusive(d, vs) == d >= 0 /\ d * d >= 4 * ScaledVariance(vs)

\* d / n > 2 * stdDev, for d = n * (a difference from avg)
MoreThanTwoStdDev(d, vs) == d > 0 /\ d * d > 4 * ScaledVariance(vs)

\* detectAnomalies(currentData, historicalData): the channels of the messages
\* pushed, in push order
DetectAnomalies(cd, hd) ==
    LET temp == MoreThanTwoStdDev(Abs(ScaledDeviation(cd.temperature, hd.temperature)),
                                  hd.temperature)
        power == MoreThanTwoStdDev(
                     Abs(ScaledDeviation(cd.powerConsumption, hd.powerConsumption)),
                     hd.powerConsumption)
        eff == MoreThanTwoStdDev(0 - ScaledDeviation(cd.efficiency, hd.efficiency),
                                 hd.efficiency)
        aq == MoreThanTwoStdDev(ScaledDeviation(cd.airQuality, hd.airQuality),
                                hd.airQuality)
    IN  (IF temp THEN <<"temperature">> ELSE <<>>)
        \o (IF power THEN <<"powerConsumption">> ELSE <<>>)
        \o (IF eff THEN <<"efficiency">> ELSE <<>>)
        \o (IF aq THEN <<"airQuality">> ELSE <<>>)

\* history channels: empty, constant, mean 100 with stdDev 10, mean 100 with
\* stdDev sqrt(200/3), in hundredths
AnomalySeries ==
    {<<>>, <<10000>>, <<9000, 11000>>, <<9000, 10000, 11000>>}

\* current values: the two-sigma boundaries of <<9000, 11000>> and their
\* neighbours, in hundredths
AnomalyValues == {7999, 8000, 12000, 12001}

InitAnomalies ==
    /\ now = BootTime
    /\ IdleObject
    /\ IdleGenerators
    /\ IdleMetrics
    /\ IdlePredict
    /\ historicalData \in
          {h \in [Channels -> AnomalySeries] : h.occupancy = <<>>}
    /\ currentData \in
          [temperature : AnomalyValues, airQuality : AnomalyValues,
           powerConsumption : AnomalyValues, efficiency : AnomalyValues,
           cost : {0}]
    /\ energyPredictions = <<>>
    /\ buildingPredictions = <<>>
    /\ anomalies = <<>>
    /\ alerts = <<>>
    /\ IdleWeb
    /\ IdleAi

DetectAnomaliesCall ==
    /\ anomalies = <<>>
    /\ anomalies' = <<DetectAnomalies(currentData, historicalData)>>
    /\ UNCHANGED <<now, objectVars, generators, metricVars, predictVars,
                   historicalData, currentData, energyPredictions,
                   buildingPredictions, alerts, webVars, aiVars>>

NextAnomalies == DetectAnomaliesCall

SpecAnomalies == InitAnomalies /\ [][NextAnomalies]_vars

(***************************************************************************)
(* PredictionService: alerts                                               *)
(***************************************************************************)
(* Units: temperature and efficiency tenths, powerConsumption and cost     *)
(* hundredths, airQuality units.                                           *)

\* the comparison with >= in place of >
HighTemperatureInclusive(cd) == cd.temperature >= 260

\* currentData.building.temperature > 26
HighTemperature(cd) == cd.temperature > 260

\* currentData.building.temperature < 18
LowTemperature(cd) == cd.temperature < 180

\* currentData.energy.efficiency < 80
LowEfficiency(cd) == cd.efficiency < 800

\* avgPredictedPower > currentData.energy.powerConsumption * 1.2; for an
\* empty list avgPredictedPower is 0 / 0 = NaN and the comparison is false
PowerIncrease(cd, predictions) ==
    /\ Len(predictions) > 0
    /\ 5 * SumTo([k \in 1..Len(predictions) |-> predictions[k].powerConsumption],
                 Len(predictions))
          > 6 * cd.powerConsumption * Len(predictions)

\* currentData.building.airQuality > 150
PoorAirQuality(cd) == cd.airQuality > 150

\* the comparison with >= in place of >
CostIncreaseInclusive(cd, predictions) ==
    100 * SumTo([k \in 1..Len(predictions) |-> predictions[k].cost], Len(predictions))
        >= 115 * (cd.cost * 24)

\* predictedDailyCost > currentDailyCost * 1.15, currentDailyCost = cost * 24;
\* for an empty list predictedDailyCost is the initial value 0 of the reduce
CostIncrease(cd, predictions) ==
    100 * SumTo([k \in 1..Len(predictions) |-> predictions[k].cost], Len(predictions))
        > 115 * (cd.cost * 24)

Alert(rule, type) == [rule |-> rule, type |-> type]

\* generateAlerts(currentData, predictions): the alerts pushed, in push order
GenerateAlerts(cd, predictions) ==
    (IF HighTemperature(cd) THEN <<Alert("highTemperature", "warning")>>
     ELSE IF LowTemperature(cd) THEN <<Alert("lowTemperature", "warning")>>
     ELSE <<>>)
    \o (IF LowEfficiency(cd) THEN <<Alert("lowEfficiency", "critical")>> ELSE <<>>)
    \o (IF PowerIncrease(cd, predictions)
        THEN <<Alert("powerIncrease", "warning")>> ELSE <<>>)
    \o (IF PoorAirQuality(cd) THEN <<Alert("poorAirQuality", "critical")>> ELSE <<>>)
    \o (IF CostIncrease(cd, predictions) THEN <<Alert("costIncrease", "info")>> ELSE <<>>)

\* predicted points, by the two fields generateAlerts reads: power 120.00 or
\* 120.02 and cost 138.00 or 138.01
AlertPredictionPoints == [powerConsumption : {12000, 12002}, cost : {13800, 13801}]

\* prediction lists of up to two points
AlertPredictions ==
    {<<>>} \cup {<<x>> : x \in AlertPredictionPoints}
           \cup {<<x, y>> : x \in AlertPredictionPoints, y \in AlertPredictionPoints}

InitAlerts ==
    /\ now = BootTime
    /\ IdleObject
    /\ IdleGenerators
    /\ IdleMetrics
    /\ IdlePredict
    /\ historicalData = NoSeries
    /\ currentData \in
          [temperature : {179, 180, 260, 261}, airQuality : {150, 151},
           powerConsumption : {10000}, efficiency : {799, 800}, cost : {0, 1000}]
    /\ energyPredictions \in {<<x>> : x \in AlertPredictions}
    /\ buildingPredictions = <<>>
    /\ anomalies = <<>>
    /\ alerts = <<>>
    /\ IdleWeb
    /\ IdleAi

GenerateAlertsCall ==
    /\ alerts = <<>>
    /\ alerts' = <<GenerateAlerts(currentData, energyPredictions[1])>>
    /\ UNCHANGED <<now, objectVars, generators, metricVars, predictVars,
                   historicalData, currentData, energyPredictions,
                   buildingPredictions, anomalies, webVars, aiVars>>

NextAlerts == GenerateAlertsCall

SpecAlerts == InitAlerts /\ [][NextAlerts]_vars

(***************************************************************************)
(* Specification of the alerts raised for a generated snapshot             *)
(***************************************************************************)

\* the fields of { building, energy } that generateAlerts reads
IoTData(b, e) ==
    [temperature |-> b.temperature, airQuality |-> b.airQuality,
     powerConsumption |-> e.powerConsumption, efficiency |-> e.efficiency,
     cost |-> e.cost]

\* the snapshot generateCurrentData() returns under the scenario that
\* determineScenario() gave
GeneratedSnapshot(tf, scenario, r) ==
    IoTData(GenerateBuildingKPIs(tf, BootTime, scenario, r),
            GenerateEnergyKPIs(tf, BootTime, scenario, r))

\* the forecasts handed to generateAlerts: none or a single point
SnapshotPredictions == {<<>>} \cup {<<x>> : x \in AlertPredictionPoints}

InitSnapshotAlerts ==
    /\ now = BootTime
    /\ IdleObject
    /\ IdleGenerators
    /\ gScenario \in Scenarios
    /\ gHour \in {BootHour}
    /\ gRnd \in [1..9 -> RandVals]
    /\ building = <<>>
    /\ energy = <<>>
    /\ IdlePredict
    /\ historicalData = NoSeries
    /\ currentData = NoSnapshot
    /\ energyPredictions \in {<<x>> : x \in SnapshotPredictions}
    /\ buildingPredictions = <<>>
    /\ anomalies = <<>>
    /\ alerts = <<>>
    /\ IdleWeb
    /\ IdleAi

\* router.get('/'): the snapshot is generated and handed to generateAlerts
\* together with the forecast
GetAlerts ==
    /\ alerts = <<>>
    /\ currentData' = GeneratedSnapshot(GetTimeOfDayFactor(gHour), gScenario, gRnd)
    /\ alerts' = <<GenerateAlerts(currentData', energyPredictions[1])>>
    /\ UNCHANGED <<now, objectVars, generators, metricVars, predictVars,
                   historicalData, energyPredictions, buildingPredictions,
                   anomalies, webVars, aiVars>>

NextSnapshotAlerts == GetAlerts

SpecSnapshotAlerts == InitSnapshotAlerts /\ [][NextSnapshotAlerts]_vars

(***************************************************************************)
(* Properties                                                              *)
(***************************************************************************)

\* the step is a call of a DataGenerator method (the clock stands still) and
\* last' describes it
IsCall(op) == now' = now /\ last'.op = op

\* C1: there is exactly one scenario state for the whole process: the route
\* modules' current-snapshot operations all read and advance the same
\* {currentScenario, scenarioStartTime}, so that after any sequence of
\* requests the routers observe the same scenario and the same timer.
OneScenarioState ==
    \A r1 \in Routers, r2 \in Routers : generators[r1] = generators[r2]

\* the ordinary-least-squares line over x = 0..n-1, evaluated at x, rounded to
\* hundredths with a tie going up and clamped at 0
OlsForecastAt(ys, x) ==
    LET n == Len(ys)
        sx == SumTo([k \in 1..n |-> k - 1], n)
        sxx == SumTo([k \in 1..n |-> (k - 1) * (k - 1)], n)
        sy == SumTo(ys, n)
        sxy == SumTo([k \in 1..n |-> (k - 1) * ys[k]], n)
        den == n * sxx - sx * sx
        slopeNum == n * sxy - sx * sy
        \* intercept + slope * x = (sy * den - slopeNum * sx + slopeNum * x * n) / (n * den)
        valueNum == sy * den - slopeNum * sx + slopeNum * x * n
    IN  Max(0, (2 * valueNum + n * den) \div (2 * n * den))

\* C2: for a series of n >= 2 points predictValue(series, hoursAhead) is the
\* least-squares line over indices 0..n-1 evaluated at index n-1+hoursAhead,
\* clamped to >= 0 and rounded to 2 decimals; for [100,102,104,106,108] and
\* hoursAhead = 1 it is 110.
PredictValueIsOlsAtLastPlusHours ==
    (predicted # <<>> /\ Len(points) >= 2) =>
        /\ predicted[1] = OlsForecastAt(points, Len(points) - 1 + hoursAhead)
        /\ (points = <<10000, 10200, 10400, 10600, 10800>> /\ hoursAhead = 1)
              => predicted[1] = 11000

\* C3: in every generated building snapshot, under each scenario, occupancy is
\* an integer and is at least 10.
OccupancyIsIntegerAtLeast10 ==
    building # <<>> =>
        /\ building[1].occupancy % 100 = 0
        /\ building[1].occupancy >= 10 * 100

\* the values a snapshot generated under a forced extreme scenario must show;
\* tf is the time-of-day factor in hundredths
ShowsScenario(data, scenario, tf) ==
    LET b == data.building
        e == data.energy
        leastBaseline == 15 * tf - 150
    IN  CASE scenario = "extreme_temp_high" ->
               /\ b.temperature >= 280 /\ b.temperature <= 320
               /\ e.efficiency <= 870
               /\ e.powerConsumption >= 15 * leastBaseline
          [] scenario = "extreme_temp_low" ->
               /\ b.temperature >= 140 /\ b.temperature <= 180
               /\ e.efficiency <= 870
               /\ e.powerConsumption >= 15 * leastBaseline
          [] scenario = "extreme_air_quality" ->
               /\ \/ b.airQuality >= 250 /\ b.airQuality <= 400
                  \/ b.airQuality >= 20 /\ b.airQuality <= 40
               /\ e.powerConsumption >= 13 * leastBaseline
          [] scenario = "extreme_humidity" ->
               /\ \/ b.humidity >= 750 /\ b.humidity <= 900
                  \/ b.humidity >= 250 /\ b.humidity <= 350
               /\ e.powerConsumption >= 12 * leastBaseline
          [] OTHER -> TRUE

\* C4: generateCurrentData with a forced scenario generates the building and
\* the energy snapshot under that scenario, makes no random scenario draw and
\* leaves currentScenario and scenarioStartTime as they were.
ForcedScenarioLeavesStateAlone ==
    [][ (IsCall("generateCurrentData") /\ last'.forceExtreme # NoValue) =>
           /\ scenarioState' = scenarioState
           /\ last'.scenario = last'.forceExtreme
           /\ last'.draws = NoDraws
           /\ ~last'.changed
           /\ ShowsScenario(lastData'[1], last'.forceExtreme,
                            GetTimeOfDayFactor(HourOf(now))) ]_vars

\* a forced call was served while the machine, having left its initial state,
\* was in another scenario
ForcedWhileInOtherScenario ==
    /\ last.op = "generateCurrentData"
    /\ last.forceExtreme = "extreme_temp_low"
    /\ scenarioState.currentScenario = "high_occupancy"
    /\ scenarioState.scenarioStartTime > BootTime
    /\ last.at > scenarioState.scenarioStartTime

\* C5: an unforced query changes the scenario exactly when the elapsed time
\* exceeds the freshly drawn duration in [30 s, 90 s) or the 20% re-roll fires,
\* hence always when 90 s or more have elapsed; a change sets
\* scenarioStartTime to now and a query that changes nothing leaves
\* currentScenario and scenarioStartTime as they were.
TransitionExactlyWhenDue ==
    [][ (IsCall("generateCurrentData") /\ last'.forceExtreme = NoValue) =>
           LET elapsed == now - scenarioState.scenarioStartTime
               duration == ScenarioDuration(last'.draws.dur)
               due == elapsed > duration \/ last'.draws.reroll < 20
           IN  /\ duration >= 30000 /\ duration < 90000
               /\ last'.changed <=> due
               /\ elapsed >= 90000 => last'.changed
               /\ last'.changed => scenarioState'.scenarioStartTime = now
               /\ ~last'.changed => scenarioState' = scenarioState ]_vars

\* a change made by the timer alone (the re-roll did not fire), with the
\* longest duration, 90 s after the scenario started
TimerTransitionAt90s ==
    /\ last.op = "generateCurrentData"
    /\ last.forceExtreme = NoValue
    /\ last.changed
    /\ last.draws.reroll >= 20
    /\ last.draws.dur = 99
    /\ last.at = BootTime + 2 * TickMs
    /\ scenarioState.scenarioStartTime = last.at

DeclaredRangesHold ==
    /\ building # <<>> =>
          /\ building[1].airQuality >= 0 /\ building[1].airQuality <= 500
          /\ IF gScenario = "extreme_humidity"
             THEN building[1].humidity >= 250 /\ building[1].humidity <= 900
             ELSE building[1].humidity >= 300 /\ building[1].humidity <= 700
    /\ energy # <<>> =>
          /\ energy[1].efficiency >= 700 /\ energy[1].efficiency <= 1000

\* an energy snapshot whose efficiency the final clamp raised to 70, with the
\* building snapshot of the same extreme scenario
EfficiencyClampedAt70 ==
    /\ building # <<>>
    /\ energy # <<>>
    /\ gScenario = "extreme_temp_high"
    /\ energy[1].efficiency = 700
    /\ CalculateEfficiency(gRnd[2]) - 800 - gRnd[5] * 7 < 7000

HistoryChannels(pts) ==
    {pts.building[f] : f \in DOMAIN pts.building} \cup
    {pts.energy[f] : f \in DOMAIN pts.energy}

\* C9: for hours h >= 0 generateHistoryData(h) returns h+1 points in each of
\* the 9 channels, in chronological order, consecutive time stamps one hour
\* apart, the last at now, and the same time stamp at the same index of every
\* channel.
HistoryShape ==
    (last.op = "generateHistoryData" /\ last.hours >= 0) =>
        /\ Cardinality(DOMAIN lastData[1].building) = 4
        /\ Cardinality(DOMAIN lastData[1].energy) = 5
        /\ \A ch \in HistoryChannels(lastData[1]) :
              /\ Len(ch) = last.hours + 1
              /\ ch[Len(ch)].timestamp = last.at
              /\ \A k \in 1..(Len(ch) - 1) :
                    ch[k + 1].timestamp = ch[k].timestamp + 3600000
              /\ \A k \in 1..Len(ch) :
                    ch[k].timestamp = lastData[1].building.temperature[k].timestamp

\* a history of the largest size
LongestHistory ==
    /\ last.op = "generateHistoryData"
    /\ last.hours = MaxHours
    /\ Len(lastData[1].energy.cost) = MaxHours + 1

\* C10: generateHistoryData generates every sample under the normal scenario
\* whatever the live currentScenario is, and changes neither currentScenario
\* nor scenarioStartTime.
HistoryIsNormalAndFrameless ==
    [][ IsCall("generateHistoryData") =>
           /\ scenarioState' = scenarioState
           /\ \A k \in 1..Len(last'.scenarios) : last'.scenarios[k] = "normal"
           /\ \A k \in 1..Len(lastData'[1].building.humidity) :
                 /\ lastData'[1].building.humidity[k].value >= 400
                 /\ lastData'[1].building.humidity[k].value <= 600
                 /\ lastData'[1].building.airQuality[k].value <= 75
                 /\ lastData'[1].energy.efficiency[k].value >= 800 ]_vars

\* a history generated while the live scenario was an extreme one
HistoryDuringExtreme ==
    /\ last.op = "generateHistoryData"
    /\ last.hours >= 1
    /\ scenarioState.currentScenario = "extreme_humidity"

\* C11: for every integer hoursAhead h, predictEnergyConsumption and
\* predictBuildingMetrics return exactly max(0, h) points, the i-th computed
\* with predictValue(series, i) and stamped now + i hours, in increasing
\* order of time; for h <= 0 the list is empty.
ForecastHasOnePointPerHour ==
    /\ energyPredictions # <<>> =>
          LET p == energyPredictions[1]
          IN  /\ Len(p) = Max(0, hoursAhead)
              /\ hoursAhead <= 0 => p = <<>>
              /\ \A i \in 1..Len(p) :
                    /\ p[i].powerConsumption =
                          PredictValue(historicalData.powerConsumption, i)
                    /\ p[i].efficiency * 10 - PredictValue(historicalData.efficiency, i)
                          \in (0 - 5)..5
                       \/ p[i].efficiency = 1000
                    /\ p[i].timestamp = now + i * 3600000
                    /\ i > 1 => p[i - 1].timestamp < p[i].timestamp
    /\ buildingPredictions # <<>> =>
          LET b == buildingPredictions[1]
          IN  /\ Len(b) = Max(0, hoursAhead)
              /\ hoursAhead <= 0 => b = <<>>
              /\ \A i \in 1..Len(b) :
                    /\ b[i].temperature * 10 - PredictValue(historicalData.temperature, i)
                          \in (0 - 5)..5
                    /\ b[i].occupancy * 100 - PredictValue(historicalData.occupancy, i)
                          \in (0 - 50)..50
                    /\ b[i].airQuality * 100 - PredictValue(historicalData.airQuality, i)
                          \in (0 - 50)..50
                       \/ b[i].airQuality = 500
                    /\ b[i].timestamp = now + i * 3600000
                    /\ i > 1 => b[i - 1].timestamp < b[i].timestamp

\* both forecasts were made for the longest horizon over a falling power
\* series and a rising efficiency series
LongestForecast ==
    /\ hoursAhead = 3
    /\ energyPredictions # <<>> /\ Len(energyPredictions[1]) = 3
    /\ buildingPredictions # <<>> /\ Len(buildingPredictions[1]) = 3
    /\ historicalData.powerConsumption = <<8000, 7000, 6500>>
    /\ historicalData.efficiency = <<10000, 10200>>

\* C12: predictValue does not fail on a degenerate series: for the empty
\* series it returns 0 and for a single-point series that point's value
\* unchanged, for every hoursAhead.
DegenerateSeriesGiveTrailingValue ==
    predicted # <<>> =>
        /\ points = <<>> => predicted[1] = 0
        /\ Len(points) = 1 => predicted[1] = points[1]

\* predictValue returned the negative value of a single point, for a
\* negative hoursAhead
SinglePointReturned ==
    /\ points = <<0 - 500>>
    /\ hoursAhead = 0 - 2
    /\ predicted = <<0 - 500>>

\* mean and standard deviation of the channels whose population statistics
\* are whole numbers of hundredths
KnownStats(vs) ==
    IF vs = <<10000>> THEN [mean |-> 10000, stdDev |-> 0]
    ELSE [mean |-> 10000, stdDev |-> 1000]

\* 9 * variance of the channel <<9000, 10000, 11000>>, whose mean is 10000
\* and whose variance is 2000000 / 3
NineVariance == 3 * 2000000

\* the distance d is more than two standard deviations of the channel
TwoSigmaExceeded(d, vs) ==
    IF vs \in {<<10000>>, <<9000, 11000>>}
    THEN d > 2 * KnownStats(vs).stdDev
    ELSE d > 0 /\ 9 * d * d > 4 * NineVariance

\* current - mean of the channel
DistanceFromMean(x, vs) ==
    IF vs \in {<<10000>>, <<9000, 11000>>} THEN x - KnownStats(vs).mean ELSE x - 10000

\* C13: detectAnomalies flags temperature and power exactly when
\* |current - mean| > 2 stdDev, efficiency exactly when current < mean - 2
\* stdDev, air quality exactly when current > mean + 2 stdDev, with the
\* population statistics of the history channel; the comparison is strict
\* (mean 100, stdDev 10, current 120 is not flagged) and the result holds at
\* most one message per channel, in the order temperature, power,
\* efficiency, air quality.
AnomaliesAreBeyondTwoSigma ==
    (anomalies # <<>> /\ \A c \in Channels : c = "occupancy" \/ historicalData[c] # <<>>) =>
        LET a == anomalies[1]
            Flagged(c) == \E i \in 1..Len(a) : a[i] = c
            Dist(c) == DistanceFromMean(currentData[c], historicalData[c])
            order == <<"temperature", "powerConsumption", "efficiency", "airQuality">>
        IN  /\ Flagged("temperature") <=>
                  TwoSigmaExceeded(Abs(Dist("temperature")), historicalData.temperature)
            /\ Flagged("powerConsumption") <=>
                  TwoSigmaExceeded(Abs(Dist("powerConsumption")),
                                   historicalData.powerConsumption)
            /\ Flagged("efficiency") <=>
                  TwoSigmaExceeded(0 - Dist("efficiency"), historicalData.efficiency)
            /\ Flagged("airQuality") <=>
                  TwoSigmaExceeded(Dist("airQuality"), historicalData.airQuality)
            /\ (historicalData.temperature = <<9000, 11000>>
                   /\ currentData.temperature = 12000) => ~Flagged("temperature")
            /\ a = SelectSeq(order, Flagged)

\* at mean 100 and stdDev 10 the temperature 120 was not flagged and the
\* power 120.01 was
BoundaryNotFlagged ==
    /\ anomalies = << <<"powerConsumption">> >>
    /\ historicalData.temperature = <<9000, 11000>>
    /\ historicalData.powerConsumption = <<9000, 11000>>
    /\ historicalData.efficiency = <<9000, 11000>>
    /\ historicalData.airQuality = <<9000, 11000>>
    /\ currentData.temperature = 12000
    /\ currentData.powerConsumption = 12001
    /\ currentData.efficiency = 8000
    /\ currentData.airQuality = 12000

\* C14: generateAlerts applies each threshold rule independently: a warning
\* iff temperature > 26, a warning iff temperature < 18, a critical iff
\* efficiency < 80, a warning iff mean(predicted power) > 1.2 * current
\* power, a critical iff airQuality > 150, an info iff sum(predicted cost) >
\* 1.15 * (current cost * 24); the comparisons are strict and all the rules
\* whose conditions hold fire together in one call.
AlertRulesFireIndependently ==
    alerts # <<>> =>
        LET a == alerts[1]
            p == energyPredictions[1]
            n == Len(p)
            Fired(rule, type) ==
                Cardinality({i \in 1..Len(a) : a[i].rule = rule}) = 1
                    /\ \A i \in 1..Len(a) : a[i].rule = rule => a[i].type = type
            Silent(rule) == \A i \in 1..Len(a) : a[i].rule # rule
            Iff(rule, type, cond) == IF cond THEN Fired(rule, type) ELSE Silent(rule)
            powerSum == SumTo([k \in 1..n |-> p[k].powerConsumption], n)
            costSum == SumTo([k \in 1..n |-> p[k].cost], n)
        IN  /\ Iff("highTemperature", "warning", currentData.temperature > 260)
            /\ Iff("lowTemperature", "warning", currentData.temperature < 180)
            /\ Iff("lowEfficiency", "critical", currentData.efficiency < 800)
            /\ n > 0 => Iff("powerIncrease", "warning",
                            10 * powerSum > 12 * currentData.powerConsumption * n)
            /\ Iff("poorAirQuality", "critical", currentData.airQuality > 150)
            /\ Iff("costIncrease", "info", 100 * costSum > 115 * 24 * currentData.cost)
            /\ currentData.temperature = 260 => Silent("highTemperature")
            /\ currentData.temperature = 261 => Fired("highTemperature", "warning")

\* four rules fired together in a call whose temperature, 26.0, gave no
\* temperature warning
FourAlertsTogether ==
    /\ alerts # <<>>
    /\ Len(alerts[1]) = 4
    /\ currentData.temperature = 260
    /\ currentData.efficiency = 799
    /\ currentData.airQuality = 151

\* C15: a scenario value of the caller that is no recognized forced scenario
\* is ignored: the request succeeds and the snapshot is generated under the
\* scenario the machine's own rotation chose.
UnrecognizedScenarioIgnored ==
    (response.status # 0
       /\ response.scenarioParam \notin
             {"extreme_temp_high", "extreme_temp_low", "extreme_air_quality",
              "extreme_humidity"}) =>
        /\ response.status = 200
        /\ response.determined
        /\ response.scenario \in Scenarios
        /\ response.scenario = generators["dataRoutes"].currentScenario

\* a request with ?scenario=bogus was answered with a snapshot of the
\* scenario the rotation had just changed to
BogusScenarioRotated ==
    /\ response.status = 200
    /\ response.scenarioParam = "bogus"
    /\ response.scenario = "high_occupancy"
    /\ generators["dataRoutes"].scenarioStartTime = now

\* C16: the transition decision and its state update are atomic with respect
\* to concurrent requests: no handler runs between another handler's write of
\* currentScenario and its write of scenarioStartTime, nor between its
\* decision and its writes, so nobody sees the new scenario with the old
\* timer, and one expiry of the timer makes at most one transition.
TransitionIsAtomic ==
    [][ /\ \A h \in Handlers :
              inflight'[h] # inflight[h] =>
                  \A g \in Handlers \ {h} :
                      inflight[g].pc \notin {"setScenario", "setStart"}
        /\ \A g \in Handlers, h \in Handlers :
              (g # h /\ inflight'[g].expired /\ inflight'[h].expired
                    /\ inflight'[g].change /\ inflight'[h].change)
                  => inflight'[g].seenStart # inflight'[h].seenStart
        /\ \A h \in Handlers :
              (inflight[h].pc = "return" /\ inflight'[h].pc = "done"
                    /\ inflight[h].change)
                  => /\ inflight'[h].returned = NextScenario(inflight[h].rand,
                                                            inflight[h].pick)
                     /\ scenarioState.scenarioStartTime = inflight[h].t ]_vars

\* two requests were handled after the timer expired: the first changed the
\* scenario because of the expiry, the second only by its own re-roll
SecondRequestAfterExpiry ==
    /\ inflight[1].pc = "done" /\ inflight[1].change /\ inflight[1].expired
    /\ inflight[2].pc = "done" /\ inflight[2].change /\ ~inflight[2].expired
    /\ inflight[1].t = inflight[2].t

\* C17: with Redis available, of the GET requests to one URL the first
\* misses, generates the data and stores it for the TTL (30 s for
\* /api/data/iot, 300 s for /api/data/history), and every other request for
\* that URL within the TTL is answered from the cache without invoking the
\* data generator, under any interleaving: the generator never runs twice
\* for one URL within its TTL.
OneGenerationPerTtl ==
    \A i \in 1..Len(generated), j \in 1..Len(generated) :
        (i < j /\ generated[i].url = generated[j].url) =>
            generated[j].at >=
                generated[i].at
                    + TtlSeconds(generated[i].url) * 1000

\* C18: a request with a cache-busting parameter ?t=<unique value> uses a
\* key other than the plain URL's key, so it always misses and gets freshly
\* generated data, and it never overwrites or removes the entry stored
\* under the plain URL's key.
CacheBustingLeavesPlainEntry ==
    [][ \A r \in Handlers :
          (inflight'[r] # inflight[r] /\ inflight'[r].url.query # NoQuery) =>
              /\ CacheKey(inflight'[r].url) # CacheKey(IotUrl)
              /\ inflight'[r].reply = <<>>
              /\ (inflight[r].pc = "got" /\ inflight'[r].pc # "got") =>
                    /\ response'.by = r
                    /\ response'.xCache = "MISS"
                    /\ response'.body.by = r
              /\ cache'[CacheKey(IotUrl)] = cache[CacheKey(IotUrl)]
              /\ cache'[CacheKey(HistoryUrl)] = cache[CacheKey(HistoryUrl)] ]_vars

\* request 2 carried ?t=.., missed and stored its body while the entry that
\* request 1 had stored under the plain URL's key was still valid
BustedWhilePlainCached ==
    /\ inflight[1].url = IotUrl /\ inflight[1].pc = "done"
    /\ inflight[2].url.query = 2 /\ inflight[2].pc = "done"
    /\ cache[CacheKey(IotUrl)] # <<>>
    /\ cache[CacheKey(IotUrl)][1].body.by = 1
    /\ cache[CacheKey(IotUrl)][1].storedAt = now
    /\ cache[CacheKey(inflight[2].url)] # <<>>
    /\ response.by = 2 /\ response.xCache = "MISS"

\* C19: with Redis available, the limiter admits the k-th request of one
\* client within one window for every k up to maxRequests, and answers 429
\* only when the client had already made maxRequests requests within the
\* window.
RejectedOnlyBeyondMaxRequests ==
    response.status \in {200, 429} =>
        (response.status = 429 <=> response.before >= response.limit)

\* C20: the per-endpoint limits are enforced on the endpoints they name: a
\* client that has made more requests to /api/data, /api/ai or /api/alerts
\* within 60 seconds than the limit configured for that prefix is answered
\* 429 for its further requests to the routes under the prefix, even while
\* it is under the global limit.
PerEndpointLimitEnforced ==
    (/\ response.status # 0
     /\ response.routed
     /\ response.before > ConfiguredLimit(response.mount)) => response.status = 429

\* C21: analyzeData never fails because the AI is unavailable: with no API
\* key configured, or when the OpenAI call throws or returns content that
\* is not valid JSON, it returns the rule-based fallback analysis of the
\* given snapshot, and the analysis it returns always has at least one
\* insight.
AnalysisFallsBackWhenAiUnavailable ==
    analysis # <<>> =>
        /\ Len(analysis[1].result.insights) >= 1
        /\ (\/ ~aiService.openai
            \/ analysis[1].outcome.throws
            \/ analysis[1].outcome.content.kind \in {"empty", "not_json"})
              => analysis[1].result = GetFallbackAnalysis(currentData)

\* the OpenAI API was called and answered with text that is not JSON
FellBackOnInvalidJson ==
    /\ analysis # <<>>
    /\ aiService.langchainModel
    /\ analysis[1].openAiCalls = 1
    /\ ~analysis[1].outcome.throws
    /\ analysis[1].outcome.content.kind = "not_json"
    /\ currentData.temperature = 281
    /\ analysis[1].result.insights[1] = "temperature_critically_high"

\* C22: LangChain is optional: when an OpenAI API key is configured but the
\* LangChain packages are not available, or the LangChain model fails to
\* initialise, analyzeData performs the analysis through the OpenAI direct
\* API and does not return the rule-based fallback.
KeyWithoutLangChainUsesOpenAi ==
    (analysis # <<>> /\ aiService.openai /\ ~aiService.langchainModel) =>
        analysis[1].openAiCalls >= 1

\* the snapshot has an extreme value
HasExtremeValue(cd) ==
    \/ cd.airQuality > 200
    \/ cd.temperature > 280
    \/ cd.temperature < 160
    \/ cd.humidity > 800
    \/ cd.humidity < 300

\* C26: extreme values are always reported as anomalies: whenever the
\* snapshot has airQuality > 200, temperature > 28 or < 16, or humidity > 80
\* or < 30, the analysis returned by analyzeData has a non-empty anomalies
\* list, whichever path produced it.
ExtremeValuesAreAnomalies ==
    (analysis # <<>> /\ HasExtremeValue(currentData)) =>
        analysis[1].result.anomalies # <<>>

\* C23: in every energy prediction point the cost is the predicted power of
\* that point times the fixed rate 0.12, rounded to 2 decimals, whatever the
\* hour of the predicted time; the time-of-day rate is not used.
PredictedCostUsesFixedRate ==
    energyPredictions # <<>> =>
        \A i \in 1..Len(energyPredictions[1]) :
            LET p == energyPredictions[1][i]
            IN  100 * p.cost - 12 * p.powerConsumption \in (0 - 49)..50

\* a forecast asked for at noon: the predicted hour 13:00 has the
\* generator's rate 0.15, and the predicted power 50.00 costs 6.00
CostAtPeakHour ==
    /\ energyPredictions # <<>>
    /\ Len(energyPredictions[1]) >= 1
    /\ energyPredictions[1][1].powerConsumption = 5000
    /\ energyPredictions[1][1].cost = 600
    /\ HourOf(energyPredictions[1][1].timestamp) = 13
    /\ HourlyRateByTimeOfDay(energyPredictions[1][1].timestamp) = 15

\* C25: every numeric field of every prediction point is inside its range
\* for any history bundle, including channels that are empty or hold one
\* point: powerConsumption >= 0, cost >= 0, efficiency in [0,100],
\* temperature >= 0, occupancy an integer >= 0, airQuality an integer in
\* [0,500].
PredictionPointsInRange ==
    /\ energyPredictions # <<>> =>
          \A i \in 1..Len(energyPredictions[1]) :
              LET p == energyPredictions[1][i]
              IN  /\ p.powerConsumption >= 0
                  /\ p.cost >= 0
                  /\ p.efficiency \in 0..1000
    /\ buildingPredictions # <<>> =>
          \A i \in 1..Len(buildingPredictions[1]) :
              LET b == buildingPredictions[1][i]
              IN  /\ b.temperature >= 0
                  /\ b.occupancy >= 0
                  /\ b.airQuality \in 0..500

\* C24: the HVAC status follows the rule chain: under extreme_temp_high and
\* extreme_temp_low it is always active; otherwise it is maintenance only
\* through the 30% draw of hvac_issue or the 5% baseline draw; otherwise it
\* is active when the temperature is more than 2 degrees from 22 and idle
\* when not.  So an idle snapshot reports a temperature within 2 degrees of
\* 22, and no extreme-temperature snapshot is idle or in maintenance.
HvacStatusFollowsRuleChain ==
    building # <<>> =>
        LET b == building[1]
            extreme == gScenario \in {"extreme_temp_high", "extreme_temp_low"}
            issueDraw == gScenario = "hvac_issue" /\ gRnd[8] < 30
            baselineDraw == IF gScenario = "hvac_issue" THEN gRnd[9] < 5 ELSE gRnd[8] < 5
            distance == IF b.temperature >= 220 THEN b.temperature - 220
                        ELSE 220 - b.temperature
        IN  /\ extreme => b.hvacStatus = "active"
            /\ b.hvacStatus = "maintenance" <=> (~extreme /\ (issueDraw \/ baselineDraw))
            /\ b.hvacStatus = "idle" => distance <= 20
            /\ (b.hvacStatus = "active" /\ ~extreme) => distance >= 20

\* a snapshot under extreme_temp_low that is active although its draws
\* would have meant maintenance in any other scenario
ActiveDespiteMaintenanceDraw ==
    /\ building # <<>>
    /\ gScenario = "extreme_temp_low"
    /\ gRnd[8] = 0
    /\ building[1].hvacStatus = "active"
    /\ building[1].temperature = 140

\* C27: generateAlerts called with zero predictions returns normally, emits
\* neither the predicted-power warning nor the predicted-cost info alert
\* for any snapshot with non-negative cost, and still evaluates the
\* temperature, efficiency and air-quality rules.
EmptyPredictionsRaiseNoForecastAlert ==
    (alerts # <<>> /\ energyPredictions[1] = <<>> /\ currentData.cost >= 0) =>
        LET a == alerts[1]
            has(rule) == \E i \in 1..Len(a) : a[i].rule = rule
        IN  /\ ~has("powerIncrease")
            /\ ~has("costIncrease")
            /\ has("highTemperature") <=> currentData.temperature > 260
            /\ has("lowTemperature") <=> currentData.temperature < 180
            /\ has("lowEfficiency") <=> currentData.efficiency < 800
            /\ has("poorAirQuality") <=> currentData.airQuality > 150

\* no predictions and a snapshot that costs nothing: the three threshold
\* alerts are raised and nothing else
ThresholdAlertsWithoutPredictions ==
    /\ alerts # <<>>
    /\ energyPredictions[1] = <<>>
    /\ currentData.cost = 0
    /\ Len(alerts[1]) = 3
    /\ alerts[1][1].rule = "highTemperature"
    /\ alerts[1][2].rule = "lowEfficiency"
    /\ alerts[1][3].rule = "poorAirQuality"

\* C28: a snapshot generated under extreme_temp_high always raises the
\* high-temperature warning, and a snapshot generated under extreme_temp_low
\* always raises the low-temperature warning.
ExtremeTemperatureAlwaysAlerts ==
    alerts # <<>> =>
        LET has(rule) == \E i \in 1..Len(alerts[1]) : alerts[1][i].rule = rule
        IN  /\ gScenario = "extreme_temp_high" => has("highTemperature")
            /\ gScenario = "extreme_temp_low" => has("lowTemperature")

\* C29: only successful responses enter the cache: the 500 error body of a
\* route handler is never stored, and no request is answered with a cached
\* error.
OnlySuccessfulResponsesCached ==
    /\ \A k \in DOMAIN cache : cache[k] # <<>> => ~cache[k][1].body.error
    /\ (response.status # 0 /\ response.xCache = "HIT") => ~response.body.error

\* C30: a client that has been answered 429 is admitted again no later than
\* windowSeconds after its last admitted request, whatever it sends in
\* between: no request made windowSeconds or more after the client's last
\* admitted request is rejected.
RateLimitedClientRecovers ==
    (response.status = 429 /\ requests[response.clientIp] # <<>>) =>
        LET admitted == requests[response.clientIp]
        IN  response.at - admitted[Len(admitted)] < WindowSeconds * 1000

====
